---- MODULE Spec2Model ----
(***************************************************************************)
(* Request dispatcher of borderless/site.                                  *)
(*                                                                         *)
(* Two builds of createServer are modelled side by side:                   *)
(*   impl = "server"  : src/src/server.tsx, createServer.server            *)
(*                      (form / loader hooks, try/catch error page)        *)
(*   impl = "handler" : src/unnamed/part_001, createServer.handler         *)
(*                      (onSubmit / onRequest hooks, next())               *)
(* A request is dispatched in steps, one per await in the source.          *)
(***************************************************************************)
EXTENDS Integers, Sequences, FiniteSets, TLC

\* ------------------------------------------------------------------ bounds
\* How many times a custom per-method handler may call next() in one request.
MaxNextCalls == 2

\* How many characters a string of the page data has at most.
MaxTextLen == 4

\* How many times the body accessors of one request object are called.
MaxAccessorCalls == 2

\* How many chunks the transport delivers a request body in.
MaxBodyChunks == 2

\* ------------------------------------------------------- javascript values
Undef == [t |-> "undefined"]
Num(n) == [t |-> "number", v |-> n]
Str(s) == [t |-> "string", v |-> s]

\* value ?? fallback
Coalesce(value, fallback) == IF value.t = "undefined" THEN fallback ELSE value

\* Values a user hook may throw.
PlainError == [t |-> "object", name |-> "Error", status |-> Undef, statusCode |-> Undef]
HttpError == [t |-> "object", name |-> "HttpError", status |-> Num(404), statusCode |-> Undef]
Thrown == {PlainError, HttpError}

\* what the status and statusCode fields of a thrown object can hold
StatusFields == {Undef, Num(0), Num(404), Str("404")}

\* the values the catch block can be handed: objects with any status and
\* statusCode, a string, null
ThrownValues ==
    [t : {"object"}, name : {"Error"}, status : StatusFields,
     statusCode : StatusFields]
        \cup {Str("oops"), [t |-> "null"]}

\* new TypeError(message) raised by must()
TypeError(message) ==
    [t |-> "object", name |-> "TypeError", status |-> Undef, statusCode |-> Undef,
     message |-> message]

\* Rejection of a module loader (a failed dynamic import).
LoadError(which) ==
    [t |-> "object", name |-> "LoadError", status |-> Undef, statusCode |-> Undef,
     message |-> which]

\* ------------------------------------------------------------ the request
FormLit == "application/x-www-form-urlencoded"

\* content-type header values, as token sequences; <<>> is a missing header
ContentTypes == {<<>>, <<FormLit>>, <<FormLit, ";">>, <<FormLit, "x">>}

\* the expression without its (?:;|$): any value that starts with the type
FORM_CONTENT_TYPE_PREFIX(contentType) ==
    /\ Len(contentType) >= 1
    /\ contentType[1] = FormLit

\* FORM_CONTENT_TYPE_RE = /^application\/x-www-form-urlencoded(?:;|$)/i
FORM_CONTENT_TYPE_RE(contentType) ==
    /\ Len(contentType) >= 1
    /\ contentType[1] = FormLit
    /\ (Len(contentType) = 1 \/ contentType[2] = ";")

\* RequestType given to a request by the adapter
RequestType(contentType) ==
    IF FORM_CONTENT_TYPE_RE(contentType) THEN "FORM" ELSE "UNKNOWN"

Methods == {"GET", "POST", "PUT", "post"}

toUpperCase(m) == IF m = "post" THEN "POST" ELSE m

\* pathnames as character sequences
Pathnames == {<<"/", "a">>, <<"/", "b">>, <<"/", "z">>}

\* pathname.slice(1)
Slice1(s) == IF Len(s) = 0 THEN s ELSE Tail(s)

\* query string: no __site__ parameter, __site__=1 with parseable data
\* arguments, __site__=1 with a data argument that is not JSON
Searches == {"plain", "site", "siteBadData"}

\* the requests a build is given; the handler build never reads the query
Requests(build) ==
    [method : Methods, pathname : Pathnames, contentType : ContentTypes,
     search : IF build = "server" THEN Searches ELSE {"plain"}]

NoRequest ==
    [method |-> "GET", pathname |-> <<>>, contentType |-> <<>>, search |-> "plain"]

\* --------------------------------------------------------------- the pages
\* options.pages: page "a" is given with module factories (its modules are
\* resolved anew on every request), page "b" with a plain view module and no
\* server module.
PageKeys == {<<"a">>, <<"b">>}

NotFoundKey == <<"_404">>
ErrorKey == <<"_error">>

\* createPageRouter(pages)(pathname): first match, or undefined
Router(pathname) == IF pathname \in PageKeys THEN pathname ELSE <<>>

\* the fallback taken from the page table instead of the not-found route
RouteOfFirstPage(pathname) ==
    IF Router(pathname) = <<>> THEN <<"a">> ELSE Router(pathname)

\* router(pathname) ?? notFoundRoute
RouteOf(pathname) ==
    IF Router(pathname) = <<>> THEN NotFoundKey ELSE Router(pathname)

\* ----------------------------------------------------------------- modules
OnRequestKeys == {<<>>, <<"GET">>, <<"POST">>, <<"PUT">>, <<"PUT", "GET">>}

EmptyServerModule ==
    [load |-> "ok", getServerSideProps |-> FALSE, form |-> FALSE,
     loader |-> FALSE, onRequest |-> <<>>]

FailedServerModule == [EmptyServerModule EXCEPT !.load = "fail"]

\* what a server-logic module factory can resolve to, per build
ServerModules(build) ==
    IF build = "server"
    THEN [load : {"ok"}, getServerSideProps : BOOLEAN, form : BOOLEAN,
          loader : BOOLEAN, onRequest : {<<>>}]
    ELSE [load : {"ok"}, getServerSideProps : BOOLEAN, form : BOOLEAN,
          loader : {FALSE}, onRequest : OnRequestKeys]

\* view modules: with a default export, without one, undefined, failed load
PageModules(build) ==
    IF build = "server" THEN {"ok", "noDefault", "fail"}
    ELSE {"ok", "noDefault", "undefined", "fail"}

AppModules == {"ok", "noDefault", "fail"}
DocumentModules == {"ok", "noRenderHead", "noRenderTail", "fail"}

\* the modules a route's loaders can resolve to
RoutePageModules(build, key) ==
    IF key = <<"b">> THEN {"ok"} ELSE PageModules(build)

RouteServerModules(build, key) ==
    IF key = <<"b">> THEN {EmptyServerModule}
    ELSE ServerModules(build) \cup {FailedServerModule}

NoModules ==
    [page |-> "none", server |-> EmptyServerModule, app |-> "none",
     document |-> "none"]


\* ------------------------------------------------------ hook return values
Obj(v) == [t |-> "object", v |-> v]
EmptyProps == Obj("{}")
PageProps == Obj("props")
FormResult == Obj("formData")
LoaderData == Obj("data")

\* what a data loader resolves to: LoaderHandler returns unknown
LoaderReturns == {LoaderData, Undef}

RedirectTo(url) == [t |-> "object", url |-> url]

\* a ServerSideProps value: { props, status?, redirect? }
SSP(props, status, redirect) ==
    [t |-> "object", props |-> props, status |-> status, redirect |-> redirect]

\* what a getServerSideProps hook can return
GsspReturns ==
    {Undef,
     SSP(PageProps, Undef, Undef),
     SSP(PageProps, Num(201), Undef),
     SSP(PageProps, Undef, RedirectTo("/x")),
     SSP(PageProps, Num(301), RedirectTo("/x"))}

Returns(v) == [kind |-> "return", value |-> v]
Throw(e) == [kind |-> "throw", value |-> e]
Unset == [kind |-> "unset"]

\* the behaviours of a user hook on one request
Behaviours(returns) == {Returns(v) : v \in returns} \cup {Throw(e) : e \in Thrown}

\* ---------------------------------------------------------------- Response
AbsentBody == [kind |-> "absent"]
JsonBody(data) == [kind |-> "json", data |-> data]

\* new ReactBody(element, context): the element and the RenderContext it keeps
ReactBody(element, context) ==
    [kind |-> "react", element |-> element, context |-> context]

\* <App><Component /></App> or <Component /> of the page module of `key`
Element(key, wrapped) == [component |-> key, app |-> wrapped]

RenderContext(routeKey, serverSideProps, formData) ==
    [route |-> routeKey, serverSideProps |-> serverSideProps, formData |-> formData]

Response(status, headers, body) ==
    [status |-> status, headers |-> headers, body |-> body]

NoResponse == Response(0, {}, AbsentBody)

\* { status, headers: new Map(), body: undefined }
Empty(status) == Response(status, {}, AbsentBody)

\* redirect(location, status)
redirect(location, status) ==
    Response(status, {<<"location", <<location>>>>}, AbsentBody)

\* JSON.stringify(data) as a body: a string, or undefined for a value that has
\* no JSON text (undefined)
stringify(data) ==
    IF data.t = "undefined" THEN AbsentBody ELSE JsonBody(data)

\* json(data, status); the loader branch of server() builds the same Response
json(data, status) ==
    Response(status, {<<"content-type", <<"application/json">>>>}, stringify(data))

\* render() with the redirect test after the body is built: a redirect keeps
\* the initial status and the rendered body
renderBodyFirst(element, initialStatus, context) ==
    LET ssp == context.serverSideProps IN
    Response(Coalesce(ssp.status, Num(initialStatus)).v,
             IF ssp.redirect.t # "undefined"
             THEN {<<"location", <<ssp.redirect.url>>>>}
             ELSE {<<"content-type", <<"text/html">>>>},
             ReactBody(element, context))

\* render(element, initialStatus, context) of src/src/server.tsx: the hook's
\* result was already defaulted by getServerSideProps()
render(element, initialStatus, context) ==
    LET ssp == context.serverSideProps IN
    IF ssp.redirect.t # "undefined"
    THEN redirect(ssp.redirect.url, Coalesce(ssp.status, Num(302)).v)
    ELSE Response(Coalesce(ssp.status, Num(initialStatus)).v,
                  {<<"content-type", <<"text/html">>>>},
                  ReactBody(element, context))

\* render(element, initialStatus, context) of the handler build: the hook's
\* result may be undefined and is defaulted here
renderH(element, initialStatus, context) ==
    LET ssp == Coalesce(context.serverSideProps, SSP(EmptyProps, Undef, Undef)) IN
    IF ssp.redirect.t # "undefined"
    THEN redirect(ssp.redirect.url, Coalesce(ssp.status, Num(302)).v)
    ELSE Response(Coalesce(ssp.status, Num(initialStatus)).v,
                  {<<"content-type", <<"text/html">>>>},
                  ReactBody(element, context))

\* the allow list written out as a constant instead of read off the module
generateAllowHeaderFixed(server) == <<"GET", "POST">>

\* generateAllowHeader(server) of src/src/server.tsx
generateAllowHeader(server) ==
    IF server.form THEN <<"GET", "POST">> ELSE <<"GET">>

RECURSIVE AddAll(_, _)
\* for (const key of keys) allow.add(key), on an insertion-ordered Set
AddAll(allow, keys) ==
    IF keys = <<>> THEN allow
    ELSE AddAll(IF \E i \in DOMAIN allow : allow[i] = Head(keys)
                THEN allow ELSE Append(allow, Head(keys)),
                Tail(keys))

\* the allow list of the handler build without the keys of server.onRequest
generateAllowHeaderFormOnly(server) ==
    IF server.form THEN <<"GET", "POST">> ELSE <<"GET">>

\* generateAllowHeader(server) of the handler build
generateAllowHeaderH(server) ==
    AddAll(IF server.form THEN <<"GET", "POST">> ELSE <<"GET">>, server.onRequest)

\* a value that `||` passes over
Falsy(value) ==
    \/ value.t \in {"undefined", "null"}
    \/ value = Num(0)
    \/ value = Str("")

\* getStatus(error) with `status ?? statusCode`
getStatusNullish(error) ==
    IF error.t = "object"
    THEN LET status == Coalesce(error.status, error.statusCode)
         IN IF status.t = "number" THEN status.v ELSE 500
    ELSE 500

\* getStatus(error) of the built-in error page: status || statusCode when
\* that is a number, of an error that is an object and not null
getStatus(error) ==
    IF error.t = "object"
    THEN LET status == IF Falsy(error.status)
                       THEN error.statusCode ELSE error.status
         IN IF status.t = "number" THEN status.v ELSE 500
    ELSE 500

\* getServerSideProps({ error }) of the built-in error page
ErrorPageProps(error) ==
    SSP(Obj("errorProps"), Num(getStatus(error)), Undef)

\* getApp() with the page data left empty
getAppNoProps(body) ==
    [props |-> EmptyProps, formData |-> body.context.formData]

\* ReactBody.getApp(): the PageData handed to the page and to the bootstrap
\* script: { props: serverSideProps?.props ?? {}, formData }
getApp(body) ==
    LET ssp == body.context.serverSideProps IN
    [props |-> IF ssp.t = "undefined" THEN EmptyProps
               ELSE Coalesce(ssp.props, EmptyProps),
     formData |-> body.context.formData]

\* ------------------------------------------------------------------- state
VARIABLES
    impl,       \* which build of createServer answers
    phase,      \* "live", or "reference": the request again, without onRequest
    pc,         \* where the dispatcher invocation stands
    req,        \* the Request
    method,     \* the method the dispatcher branches on
    route,      \* key of the Route in use
    mods,       \* [page, server, app, document] as resolved by Promise.all
    ctx,        \* the ServerSideContext: [key, error]
    oracle,     \* how each user hook behaves for this request
    calls,      \* the hooks invoked so far, in order
    formData,   \* result of the form handler, once it ran
    via,        \* call site of render(): "GET", "form", "notFound", "error"
    caught,     \* the value caught by the dispatcher's catch
    recoveries, \* how many times the catch block was entered
    loads,      \* how many times each module loader was invoked
    errorMods,  \* [page, server] of the error route, once loaded
    custom,     \* what the custom per-method handler does with next()
    nextCalls,  \* how many times next() was called
    nextStart,  \* Len(calls) when the running next() was called
    nextLog,    \* the settled next() calls: [outcome, resp, reason, hooks]
    reference,  \* [log, onRequest] of the live dispatch, for the reference one
    outcome,    \* "pending", "fulfilled" or "rejected"
    resp,       \* the Response the dispatcher resolved to
    reason      \* the value the dispatcher rejected with

\* a ReactBody of a Response, and the render and streams its consumption starts
VARIABLES
    consumer,   \* the consumption method called on the body, "none" before
    options,    \* the options it was called with
    renders,    \* calls of ReactDOM.renderToPipeableStream / renderToReadableStream
    react,      \* the render: shell, suspended subtree, aborted, chunks ready, sent
    signalled,  \* options.signal was triggered
    listener,   \* the body's "abort" listener is registered on the signal
    acquired,   \* the promise of the raw form: state, resolve() and reject() calls
    onErrors,   \* calls of onError
    pipe,       \* where the composition of prefix, content and suffix stands
    output,     \* what was written to the composed stream, in order
    outputEnd,  \* "open", "closed" or "aborted"
    lock,       \* a writer holds the lock of the composed stream's writable
    handedOut   \* the composed stream was returned to the caller

\* the page data of a body and the bootstrap script getApp() makes of it
VARIABLES
    pageText,   \* a string inside the props or the form data, as characters
    bootstrap   \* renderOptions.bootstrapScriptContent, once getApp() ran

\* a request object of an adapter and the transport stream behind it
VARIABLES
    adapter,    \* "node" (NodeRequest) or "worker" (WorkerRequest)
    transport,  \* the request body: chunks delivered, ended, reads started
    accessors   \* the calls of form/text/json/arrayBuffer and their promises

\* the exchange a node adapter's handler has with its host
VARIABLES
    exchange    \* adapter, res.statusCode, what reached res, res.end(), next()

dvars ==
    <<impl, phase, pc, req, method, route, mods, ctx, oracle, calls, formData,
      via, caught, recoveries, loads, errorMods, custom, nextCalls, nextStart,
      nextLog, reference, outcome, resp, reason>>

bvars ==
    <<consumer, options, renders, react, signalled, listener, acquired,
      onErrors, pipe, output, outputEnd, lock, handedOut>>

svars == <<pageText, bootstrap>>

rvars == <<adapter, transport, accessors>>

\* the dev server: the files watched, the cached site, the sites created
VARIABLES
    files,      \* the Set of paths the watcher has added and not unlinked
    cache,      \* the site in `cache`, as its place in `sites`; 0 when null
    sites,      \* the page table of every site reloadCache() created
    inflight    \* the requests in progress: their site and what they saw of it

devvars == <<files, cache, sites, inflight>>

\* two invocations of one server at a time
VARIABLES
    run,        \* each invocation: its request, where it stands, what it did
    contexts    \* the ServerSideContext objects, by the invocation that made them

cvars == <<run, contexts>>

\* the loaders fn() made of the two modules of a page
VARIABLES
    loaders,    \* the loader of each module, as fn() returned it
    invoked     \* per loader: the calls of the value it wraps, what it returned

lvars == <<loaders, invoked>>

\* the page router on one pathname
VARIABLES
    routing     \* the values the router captured, and the Route made of them

pvars == <<routing>>

xvars == <<exchange, devvars, cvars, lvars, pvars>>

vars == <<dvars, bvars, svars, rvars, xvars>>

\* no page data serialised, no adapter request made
Elsewhere ==
    /\ pageText = <<>>
    /\ bootstrap = [t |-> "unset"]
    /\ adapter = "none"
    /\ transport = [delivered |-> 0, ended |-> FALSE, reads |-> 0]
    /\ accessors = <<>>

\* no adapter handler called
NoExchange ==
    [adapter |-> "none", stage |-> "none", statusCode |-> Undef, written |-> 0,
     piped |-> FALSE, ended |-> FALSE, nexts |-> 0]

\* a request slot of the dev server with no request in it
NoDevRequest ==
    [stage |-> "idle", site |-> 0,
     table |-> [pages |-> {}, serverPaths |-> {}, document |-> FALSE,
                app |-> FALSE, error |-> FALSE, notFound |-> FALSE,
                unhandled |-> {}],
     matched |-> FALSE, sawError |-> FALSE]

DevRequests == {1, 2}

\* no dev server running
NoDev ==
    /\ files = {}
    /\ cache = 0
    /\ sites = <<>>
    /\ inflight = [i \in DevRequests |-> NoDevRequest]

Callers == {1, 2}

\* an invocation slot with no request in it
NoRun ==
    [pc |-> "idle", input |-> <<>>, seen |-> <<>>, formData |-> Undef,
     caught |-> Undef, resp |-> NoResponse]

NoContext == [key |-> <<>>, request |-> NoRequest, error |-> Undef]

\* the server was not called
NoRuns ==
    /\ run = [i \in Callers |-> NoRun]
    /\ contexts = [i \in Callers |-> NoContext]

ModuleSlots == {"module", "serverModule"}

\* no loader made
NoLoaders ==
    /\ loaders = [slot \in ModuleSlots |-> [calls |-> "none", of |-> Undef]]
    /\ invoked = [slot \in ModuleSlots |->
                    [given |-> Undef, factoryCalls |-> 0, results |-> <<>>]]

\* the page router was not called
NoRouting ==
    [stage |-> "idle", values |-> <<>>, key |-> <<>>, params |-> <<>>,
     threw |-> FALSE]

Apart ==
    /\ exchange = NoExchange
    /\ NoDev
    /\ NoRuns
    /\ NoLoaders
    /\ routing = NoRouting

\* new ReactBody(element, context): the constructor keeps its two arguments
Inert ==
    /\ consumer = "none"
    /\ options = [waitForAllReady |-> FALSE, signal |-> FALSE]
    /\ renders = 0
    /\ react = [shell |-> "none", suspended |-> FALSE, allReady |-> FALSE,
                aborted |-> FALSE, ready |-> 0, sent |-> 0]
    /\ signalled = FALSE
    /\ listener = FALSE
    /\ acquired = [state |-> "none", resolves |-> 0, rejects |-> 0]
    /\ onErrors = 0
    /\ pipe = "none"
    /\ output = <<>>
    /\ outputEnd = "open"
    /\ lock = FALSE
    /\ handedOut = FALSE

NoOracle ==
    [getServerSideProps |-> Unset, form |-> Unset, loader |-> Unset,
     errorProps |-> Unset]

NoReference == [log |-> <<>>, onRequest |-> <<>>]

NoErrorMods == [page |-> "none", server |-> "none"]

\* a hook call as the trace records it: which hook, of which route's module,
\* and the error field of the context it was handed
Call(hook, of, error) == [hook |-> hook, of |-> of, error |-> error]

\* no loader invoked
NoLoads ==
    [page |-> 0, server |-> 0, app |-> 0, document |-> 0, errorPage |-> 0,
     errorServer |-> 0]

\* route.module(), route.serverModule(), serverApp.module() and
\* serverDocument.module() were each called once more
RouteLoaded(counts) ==
    [counts EXCEPT !.page = @ + 1, !.server = @ + 1, !.app = @ + 1,
                   !.document = @ + 1]

\* errorRoute.module() and errorRoute.serverModule() were called once more
ErrorRouteLoaded(counts) ==
    [counts EXCEPT !.errorPage = @ + 1, !.errorServer = @ + 1]

\* no dispatch in progress
Idle ==
    /\ phase = "live"
    /\ pc = "idle"
    /\ req = NoRequest
    /\ method = "GET"
    /\ route = <<>>
    /\ mods = NoModules
    /\ ctx = [key |-> <<>>, error |-> Undef]
    /\ oracle = NoOracle
    /\ calls = <<>>
    /\ formData = Undef
    /\ via = "none"
    /\ caught = Undef
    /\ recoveries = 0
    /\ loads = NoLoads
    /\ errorMods = NoErrorMods
    /\ custom = "none"
    /\ nextCalls = 0
    /\ nextStart = 0
    /\ nextLog = <<>>
    /\ reference = NoReference
    /\ outcome = "pending"
    /\ resp = NoResponse
    /\ reason = Undef

Init ==
    /\ impl \in {"server", "handler"}
    /\ Idle
    /\ Inert
    /\ Elsewhere
    /\ Apart

\* the dispatcher's promise settles
Fulfil(response) ==
    /\ outcome' = "fulfilled"
    /\ resp' = response
    /\ reason' = Undef
    /\ pc' = "done"

Reject(error) ==
    /\ outcome' = "rejected"
    /\ resp' = NoResponse
    /\ reason' = error
    /\ pc' = "done"

\* a hook's behaviour on this request: decided at its first call
Decide(hook, behaviours, b) ==
    /\ b \in behaviours
    /\ oracle[hook] \in {Unset, b}
    /\ oracle' = [oracle EXCEPT ![hook] = b]

\* server(request, context) / handler(request, context) is called: routing
Receive(r) ==
    /\ pc = "idle"
    /\ req' = r
    /\ method' = IF impl = "server" THEN r.method ELSE toUpperCase(r.method)
    /\ route' = RouteOf(Slice1(r.pathname))
    /\ pc' = "load"
    /\ phase' = "live"
    /\ mods' = NoModules
    /\ ctx' = [key |-> <<>>, error |-> Undef]
    /\ oracle' = NoOracle
    /\ calls' = <<>>
    /\ formData' = Undef
    /\ via' = "none"
    /\ caught' = Undef
    /\ recoveries' = 0
    /\ loads' = NoLoads
    /\ errorMods' = NoErrorMods
    /\ custom' = "none"
    /\ nextCalls' = 0
    /\ nextStart' = 0
    /\ nextLog' = <<>>
    /\ reference' = NoReference
    /\ outcome' = "pending"
    /\ resp' = NoResponse
    /\ reason' = Undef
    /\ UNCHANGED <<impl, bvars, svars, rvars, xvars>>


\* what stays as it is while the dispatcher moves between Receive and settling
UNCHANGED_request ==
    UNCHANGED <<impl, phase, req, method, route, reference, bvars, svars, rvars, xvars>>

\* the rejection of Promise.all: the reason of one of the failed loads
LoadFailures(page, server, app, document) ==
    {LoadError("page") : x \in {page} \cap {"fail"}}
        \cup {LoadError("server") : x \in {server.load} \cap {"fail"}}
        \cup {LoadError("app") : x \in {app} \cap {"fail"}}
        \cup {LoadError("document") : x \in {document} \cap {"fail"}}

\* ===================== src/src/server.tsx: createServer.server ============

\* Promise.all of the four module loads, then must(document.renderHead),
\* must(document.renderTail), the context and the loader: all before `try`
ServerLoad ==
    /\ impl = "server"
    /\ pc = "load"
    /\ \E page \in RoutePageModules(impl, route),
          server \in RouteServerModules(impl, route),
          app \in AppModules,
          document \in DocumentModules :
        LET failures == LoadFailures(page, server, app, document) IN
        IF failures # {}
        THEN /\ \E e \in failures : Reject(e)
             /\ UNCHANGED <<mods, ctx>>
        ELSE IF document = "noRenderHead"
        THEN /\ Reject(TypeError("_document renderHead"))
             /\ UNCHANGED <<mods, ctx>>
        ELSE IF document = "noRenderTail"
        THEN /\ Reject(TypeError("_document renderTail"))
             /\ UNCHANGED <<mods, ctx>>
        ELSE /\ mods' = [page |-> page, server |-> server, app |-> app,
                         document |-> document]
             /\ ctx' = [key |-> route, error |-> Undef]
             /\ pc' = "try"
             /\ UNCHANGED <<outcome, resp, reason>>
    /\ UNCHANGED <<oracle, calls, formData, via, caught, recoveries, errorMods,
                   custom, nextCalls, nextStart, nextLog>>
    /\ UNCHANGED_request
    /\ loads' = RouteLoaded(loads)

\* control leaves the try block by an exception: the catch block is entered
EnterCatch(error) ==
    /\ pc' = "catch"
    /\ caught' = error
    /\ recoveries' = recoveries + 1
    /\ UNCHANGED <<outcome, resp, reason>>

\* the synchronous part of the try block, up to its first await or return
ServerTry ==
    /\ impl = "server"
    /\ pc = "try"
    /\ IF mods.page = "noDefault"
       THEN /\ EnterCatch(TypeError("page default"))
            /\ UNCHANGED via
       ELSE IF route = NotFoundKey
       THEN IF method = "GET"
            THEN /\ pc' = "props"
                 /\ via' = "notFound"
                 /\ UNCHANGED <<caught, recoveries, outcome, resp, reason>>
            ELSE /\ Fulfil(Empty(404))
                 /\ UNCHANGED <<via, caught, recoveries>>
       ELSE IF mods.app = "noDefault"
       THEN /\ EnterCatch(TypeError("_app default"))
            /\ UNCHANGED via
       ELSE IF method = "POST" /\ mods.server.form
       THEN IF RequestType(req.contentType) = "FORM"
            THEN /\ pc' = "form"
                 /\ UNCHANGED <<via, caught, recoveries, outcome, resp, reason>>
            ELSE /\ Fulfil(Empty(415))
                 /\ UNCHANGED <<via, caught, recoveries>>
       ELSE IF method = "GET"
       THEN IF req.search = "siteBadData"
            THEN /\ EnterCatch(TypeError("JSON.parse"))
                 /\ UNCHANGED via
            ELSE IF req.search = "site"
            THEN /\ pc' = "loader"
                 /\ UNCHANGED <<via, caught, recoveries, outcome, resp, reason>>
            ELSE /\ pc' = "props"
                 /\ via' = "GET"
                 /\ UNCHANGED <<caught, recoveries, outcome, resp, reason>>
       ELSE /\ Fulfil(Response(405,
                               {<<"allow", generateAllowHeader(mods.server)>>},
                               AbsentBody))
            /\ UNCHANGED <<via, caught, recoveries>>
    /\ UNCHANGED <<mods, ctx, oracle, calls, formData, errorMods, custom,
                   nextCalls, nextStart, nextLog>>
    /\ UNCHANGED_request
    /\ UNCHANGED loads

\* const formData = await server.form(serverSideContext)
ServerForm ==
    /\ impl = "server"
    /\ pc = "form"
    /\ calls' = Append(calls, Call("form", route, ctx.error))
    /\ \E b \in Behaviours({FormResult}) :
        /\ Decide("form", Behaviours({FormResult}), b)
        /\ IF b.kind = "throw"
           THEN /\ EnterCatch(b.value)
                /\ UNCHANGED <<formData, via>>
           ELSE /\ formData' = b.value
                /\ via' = "form"
                /\ pc' = "props"
                /\ UNCHANGED <<caught, recoveries, outcome, resp, reason>>
    /\ UNCHANGED <<mods, ctx, errorMods, custom, nextCalls, nextStart, nextLog>>
    /\ UNCHANGED_request
    /\ UNCHANGED loads

\* const data = await loader(...args); the JSON response
ServerLoader ==
    /\ impl = "server"
    /\ pc = "loader"
    /\ IF ~mods.server.loader
       THEN \* typeError(`Missing a data loader implementation`)
            /\ EnterCatch(TypeError("data loader"))
            /\ UNCHANGED <<oracle, calls>>
       ELSE /\ calls' = Append(calls, Call("loader", route, ctx.error))
            /\ \E b \in Behaviours(LoaderReturns) :
                /\ Decide("loader", Behaviours(LoaderReturns), b)
                /\ IF b.kind = "throw"
                   THEN EnterCatch(b.value)
                   ELSE /\ Fulfil(json(b.value, 200))
                        /\ UNCHANGED <<caught, recoveries>>
    /\ UNCHANGED <<mods, ctx, formData, via, errorMods, custom, nextCalls,
                   nextStart, nextLog>>
    /\ UNCHANGED_request
    /\ UNCHANGED loads

\* the element and initial status render() is called with in the try block
TryElement == Element(route, via # "notFound")
TryStatus == IF via = "notFound" THEN 404 ELSE 200

\* await getServerSideProps(server, serverSideContext), then return render(..)
ServerProps ==
    /\ impl = "server"
    /\ pc = "props"
    /\ IF ~mods.server.getServerSideProps
       THEN /\ Fulfil(render(TryElement, TryStatus,
                RenderContext(route, SSP(EmptyProps, Undef, Undef), formData)))
            /\ UNCHANGED <<oracle, calls, caught, recoveries>>
       ELSE /\ calls' = Append(calls, Call("getServerSideProps", route, ctx.error))
            /\ \E b \in Behaviours(GsspReturns) :
                /\ Decide("getServerSideProps", Behaviours(GsspReturns), b)
                /\ IF b.kind = "throw"
                   THEN EnterCatch(b.value)
                   ELSE /\ Fulfil(render(TryElement, TryStatus,
                             RenderContext(route,
                                Coalesce(b.value, SSP(EmptyProps, Undef, Undef)),
                                formData)))
                        /\ UNCHANGED <<caught, recoveries>>
    /\ UNCHANGED <<mods, ctx, formData, via, errorMods, custom, nextCalls,
                   nextStart, nextLog>>
    /\ UNCHANGED_request
    /\ UNCHANGED loads

\* an exception raised inside the catch block handled like one of the try
\* block: the catch block is entered again
FatalRetried(error) ==
    /\ pc' = "catch"
    /\ caught' = error
    /\ recoveries' = recoveries + 1
    /\ UNCHANGED <<outcome, resp, reason>>

\* an exception raised inside the catch block leaves the dispatcher: its
\* promise rejects
Fatal(error) ==
    /\ Reject(error)
    /\ UNCHANGED <<caught, recoveries>>

\* the error route's modules: a view module, and either the built-in
\* error.server.js, a module of options.error, or a failed load
ErrorPageModules == {"ok", "noDefault", "fail"}
ErrorServerModules == {"builtin", "hook", "noHook", "fail"}

\* catch (error): Promise.all of the error route's two loads, must(page.default)
ServerCatch ==
    /\ impl = "server"
    /\ pc = "catch"
    /\ \E page \in ErrorPageModules, server \in ErrorServerModules :
        IF page = "fail" \/ server = "fail"
        THEN /\ Fatal(LoadError("_error"))
             /\ UNCHANGED errorMods
        ELSE IF page = "noDefault"
        THEN /\ Fatal(TypeError("page default"))
             /\ UNCHANGED errorMods
        ELSE /\ errorMods' = [page |-> page, server |-> server]
             /\ pc' = "errorProps"
             /\ UNCHANGED <<outcome, resp, reason, caught, recoveries>>
    /\ UNCHANGED <<mods, ctx, oracle, calls, formData, via,
                   custom, nextCalls, nextStart, nextLog>>
    /\ UNCHANGED_request
    /\ loads' = ErrorRouteLoaded(loads)

\* the catch block rendering as the try block does: wrapped, initial status 200
ErrorRenderAsPage(serverSideProps) ==
    render(Element(ErrorKey, TRUE), 200,
           RenderContext(route, serverSideProps, Undef))

\* render(<Component />, 500, { route, ..., formData: undefined }) of the catch
ErrorRender(serverSideProps) ==
    render(Element(ErrorKey, FALSE), 500,
           RenderContext(route, serverSideProps, Undef))

\* await getServerSideProps(server, Object.assign(serverSideContext, {error})),
\* then return render(...): an exception here leaves the dispatcher
ServerErrorProps ==
    /\ impl = "server"
    /\ pc = "errorProps"
    /\ ctx' = [ctx EXCEPT !.error = caught]
    /\ via' = "error"
    /\ IF errorMods.server = "noHook"
       THEN /\ Fulfil(ErrorRender(SSP(EmptyProps, Undef, Undef)))
            /\ UNCHANGED <<oracle, calls, caught, recoveries>>
       ELSE /\ calls' = Append(calls, Call("getServerSideProps", ErrorKey, caught))
            /\ IF errorMods.server = "builtin"
               THEN /\ Fulfil(ErrorRender(ErrorPageProps(caught)))
                    /\ UNCHANGED <<oracle, caught, recoveries>>
               ELSE \E b \in Behaviours(GsspReturns) :
                    /\ Decide("errorProps", Behaviours(GsspReturns), b)
                    /\ IF b.kind = "throw"
                       THEN Fatal(b.value)
                       ELSE /\ Fulfil(ErrorRender(
                                 Coalesce(b.value, SSP(EmptyProps, Undef, Undef))))
                            /\ UNCHANGED <<caught, recoveries>>
    /\ UNCHANGED <<mods, formData, errorMods, custom,
                   nextCalls, nextStart, nextLog>>
    /\ UNCHANGED_request
    /\ UNCHANGED loads

\* ================ src/unnamed/part_001: createServer.handler ==============

\* Promise.all of the four module loads; `server = {}` when undefined
HandlerLoad ==
    /\ impl = "handler"
    /\ pc = "load"
    /\ \E page \in RoutePageModules(impl, route),
          server \in RouteServerModules(impl, route),
          app \in AppModules,
          document \in DocumentModules :
        LET failures == LoadFailures(page, server, app, document) IN
        IF failures # {}
        THEN /\ \E e \in failures : Reject(e)
             /\ UNCHANGED <<mods, ctx>>
        ELSE /\ mods' = [page |-> page, server |-> server, app |-> app,
                         document |-> document]
             /\ ctx' = [key |-> route, error |-> Undef]
             /\ pc' = "onRequest"
             /\ UNCHANGED <<outcome, resp, reason>>
    /\ UNCHANGED <<oracle, calls, formData, via, caught, recoveries, errorMods,
                   custom, nextCalls, nextStart, nextLog>>
    /\ UNCHANGED_request
    /\ loads' = RouteLoaded(loads)

\* method in server.onRequest
HasHandler(server, m) == \E i \in DOMAIN server.onRequest : server.onRequest[i] = m

\* what a custom per-method handler does: return a Response of its own,
\* throw, or call next()
CustomBehaviours == {"respond", "throw", "delegate"}

\* the custom handler given a stub for next() that resolves to an empty 415
\* instead of the default handling
CallNextStub ==
    IF custom' = "delegate"
    THEN /\ pc' = "afterNext"
         /\ nextCalls' = nextCalls + 1
         /\ nextStart' = Len(calls')
         /\ nextLog' = Append(nextLog,
               [outcome |-> "fulfilled", resp |-> Empty(415), reason |-> Undef,
                hooks |-> <<>>])
    ELSE /\ pc' = "next"
         /\ nextCalls' = nextCalls + 1
         /\ nextStart' = Len(calls')
         /\ nextLog' = nextLog

\* a call of next() begins
CallNext ==
    /\ pc' = "next"
    /\ nextCalls' = nextCalls + 1
    /\ nextStart' = Len(calls')
    /\ nextLog' = nextLog

\* if (server.onRequest && method in server.onRequest)
\*   return handler(serverSideContext, next); return next();
HandlerOnRequest ==
    /\ impl = "handler"
    /\ pc = "onRequest"
    /\ IF HasHandler(mods.server, method)
       THEN /\ calls' = Append(calls, Call("onRequest", route, ctx.error))
            /\ \E b \in CustomBehaviours :
                /\ custom' = b
                /\ CASE b = "respond" ->
                          /\ Fulfil(json(LoaderData, 200))
                          /\ UNCHANGED <<nextCalls, nextStart, nextLog>>
                     [] b = "throw" ->
                          /\ \E e \in Thrown : Reject(e)
                          /\ UNCHANGED <<nextCalls, nextStart, nextLog>>
                     [] b = "delegate" ->
                          /\ CallNext
                          /\ UNCHANGED <<outcome, resp, reason>>
       ELSE /\ custom' = "none"
            /\ calls' = calls
            /\ CallNext
            /\ UNCHANGED <<outcome, resp, reason>>
    /\ UNCHANGED <<mods, ctx, oracle, formData, via, caught, recoveries,
                   errorMods>>
    /\ UNCHANGED_request
    /\ UNCHANGED loads

\* the promise of the running next() settles
SettleNext(o, response, error) ==
    /\ nextLog' = Append(nextLog,
          [outcome |-> o, resp |-> response, reason |-> error,
           hooks |-> SubSeq(calls', nextStart + 1, Len(calls'))])
    /\ pc' = "afterNext"

\* the synchronous part of next(), up to its first await or return
NextSync ==
    /\ impl = "handler"
    /\ pc = "next"
    /\ calls' = calls
    /\ IF mods.page = "undefined"
       THEN /\ SettleNext("fulfilled", Empty(404), Undef)
            /\ UNCHANGED via
       ELSE IF mods.app = "noDefault"
       THEN /\ SettleNext("rejected", NoResponse, TypeError("_app default"))
            /\ UNCHANGED via
       ELSE IF mods.page = "noDefault"
       THEN /\ SettleNext("rejected", NoResponse, TypeError("page default"))
            /\ UNCHANGED via
       ELSE IF mods.document = "noRenderHead"
       THEN /\ SettleNext("rejected", NoResponse, TypeError("_document renderHead"))
            /\ UNCHANGED via
       ELSE IF mods.document = "noRenderTail"
       THEN /\ SettleNext("rejected", NoResponse, TypeError("_document renderTail"))
            /\ UNCHANGED via
       ELSE IF route = NotFoundKey
       THEN IF method = "GET"
            THEN /\ pc' = "props"
                 /\ via' = "notFound"
                 /\ UNCHANGED nextLog
            ELSE /\ SettleNext("fulfilled", Empty(404), Undef)
                 /\ UNCHANGED via
       ELSE IF method = "POST" /\ mods.server.form
       THEN IF FORM_CONTENT_TYPE_RE(req.contentType)
            THEN /\ pc' = "form"
                 /\ UNCHANGED <<via, nextLog>>
            ELSE /\ SettleNext("fulfilled", Empty(415), Undef)
                 /\ UNCHANGED via
       ELSE IF method = "GET"
       THEN /\ pc' = "props"
            /\ via' = "GET"
            /\ UNCHANGED nextLog
       ELSE /\ SettleNext("fulfilled",
                  Response(405, {<<"allow", generateAllowHeaderH(mods.server)>>},
                           AbsentBody),
                  Undef)
            /\ UNCHANGED via
    /\ UNCHANGED <<mods, ctx, oracle, formData, caught, recoveries, errorMods,
                   custom, nextCalls, nextStart, outcome, resp, reason>>
    /\ UNCHANGED_request
    /\ UNCHANGED loads

\* const formData = await server.onSubmit(serverSideContext)
NextSubmit ==
    /\ impl = "handler"
    /\ pc = "form"
    /\ calls' = Append(calls, Call("form", route, ctx.error))
    /\ \E b \in Behaviours({FormResult}) :
        /\ Decide("form", Behaviours({FormResult}), b)
        /\ IF b.kind = "throw"
           THEN /\ SettleNext("rejected", NoResponse, b.value)
                /\ UNCHANGED <<formData, via>>
           ELSE /\ formData' = b.value
                /\ via' = "form"
                /\ pc' = "props"
                /\ UNCHANGED nextLog
    /\ UNCHANGED <<mods, ctx, caught, recoveries, errorMods, custom, nextCalls,
                   nextStart, outcome, resp, reason>>
    /\ UNCHANGED_request
    /\ UNCHANGED loads

\* next() handing every render() a form result, whichever branch it took
NextFormDataKept == FormResult

\* the formData next() hands to render(): that of the form branch only
NextFormData == IF via = "form" THEN formData ELSE Undef

\* await server.getServerSideProps?.(serverSideContext), then return render(..)
NextProps ==
    /\ impl = "handler"
    /\ pc = "props"
    /\ IF ~mods.server.getServerSideProps
       THEN /\ calls' = calls
            /\ SettleNext("fulfilled",
                  renderH(TryElement, TryStatus,
                          RenderContext(route, Undef, NextFormData)),
                  Undef)
            /\ UNCHANGED oracle
       ELSE /\ calls' = Append(calls, Call("getServerSideProps", route, ctx.error))
            /\ \E b \in Behaviours(GsspReturns) :
                /\ Decide("getServerSideProps", Behaviours(GsspReturns), b)
                /\ IF b.kind = "throw"
                   THEN SettleNext("rejected", NoResponse, b.value)
                   ELSE SettleNext("fulfilled",
                           renderH(TryElement, TryStatus,
                                   RenderContext(route, b.value, NextFormData)),
                           Undef)
    /\ UNCHANGED <<mods, ctx, formData, via, caught, recoveries, errorMods,
                   custom, nextCalls, nextStart, outcome, resp, reason>>
    /\ UNCHANGED_request
    /\ UNCHANGED loads

LastNext == nextLog[Len(nextLog)]

\* next() has settled. `return next()` settles the dispatcher the same way;
\* a custom handler that awaited a fulfilled next() may also call it again
HandlerAfterNext ==
    /\ impl = "handler"
    /\ pc = "afterNext"
    /\ custom' = custom
    /\ \/ /\ IF LastNext.outcome = "fulfilled"
             THEN Fulfil(LastNext.resp)
             ELSE Reject(LastNext.reason)
          /\ UNCHANGED <<calls, nextCalls, nextStart, nextLog>>
       \/ /\ custom = "delegate"
          /\ LastNext.outcome = "fulfilled"
          /\ nextCalls < MaxNextCalls
          /\ calls' = calls
          /\ CallNext
          /\ UNCHANGED <<outcome, resp, reason>>
    /\ UNCHANGED <<mods, ctx, oracle, formData, via, caught, recoveries,
                   errorMods>>
    /\ UNCHANGED_request
    /\ UNCHANGED loads

\* The request of a dispatch in which a custom handler delegated is dispatched
\* once more to a server whose page module registers no custom handler, the
\* modules and the hooks behaving as before: the reference for next().
Reference ==
    /\ impl = "handler"
    /\ pc = "done"
    /\ phase = "live"
    /\ custom = "delegate"
    /\ phase' = "reference"
    /\ reference' = [log |-> nextLog, onRequest |-> mods.server.onRequest]
    /\ mods' = [mods EXCEPT !.server.onRequest = <<>>]
    /\ pc' = "onRequest"
    /\ calls' = <<>>
    /\ formData' = Undef
    /\ via' = "none"
    /\ custom' = "none"
    /\ nextCalls' = 0
    /\ nextStart' = 0
    /\ nextLog' = <<>>
    /\ outcome' = "pending"
    /\ resp' = NoResponse
    /\ reason' = Undef
    /\ UNCHANGED <<impl, req, method, route, ctx, oracle, caught, recoveries, loads,
                   errorMods, bvars, svars, rvars, xvars>>

HandlerStep ==
    \/ HandlerLoad
    \/ HandlerOnRequest
    \/ NextSync
    \/ NextSubmit
    \/ NextProps
    \/ HandlerAfterNext

\* the settled promise was handed to the caller; the server awaits a request
Return ==
    /\ pc = "done"
    /\ pc' = "idle"
    /\ phase' = "live"
    /\ req' = NoRequest
    /\ method' = "GET"
    /\ route' = <<>>
    /\ mods' = NoModules
    /\ ctx' = [key |-> <<>>, error |-> Undef]
    /\ oracle' = NoOracle
    /\ calls' = <<>>
    /\ formData' = Undef
    /\ via' = "none"
    /\ caught' = Undef
    /\ recoveries' = 0
    /\ loads' = NoLoads
    /\ errorMods' = NoErrorMods
    /\ custom' = "none"
    /\ nextCalls' = 0
    /\ nextStart' = 0
    /\ nextLog' = <<>>
    /\ reference' = NoReference
    /\ outcome' = "pending"
    /\ resp' = NoResponse
    /\ reason' = Undef
    /\ UNCHANGED <<impl, bvars, svars, rvars, xvars>>

ServerStep ==
    \/ ServerLoad
    \/ ServerTry
    \/ ServerForm
    \/ ServerLoader
    \/ ServerProps
    \/ ServerCatch
    \/ ServerErrorProps

\* a step of the dispatcher invocation in progress
Dispatch == ServerStep \/ HandlerStep

Next ==
    \/ \E r \in Requests(impl) : Receive(r)
    \/ Dispatch
    \/ Reference
    \/ Return

Spec == Init /\ [][Next]_vars

\* every started step of a dispatch is eventually taken (the event loop runs
\* every continuation whose promise has settled)
FairSpec == Spec /\ WF_vars(Dispatch)


\* ============ src/unnamed/part_013: createServer.handler, onFormSubmit =====

\* a hook call of this build: which hook, of which route's module, and the
\* formData of the ctx it was handed, as it was then
CallWith(hook, of, context) ==
    [hook |-> hook, of |-> of, formData |-> context.formData]

\* the server modules of this build: getServerSideProps or not, and
\* onRequest with no handler or with onFormSubmit(process) for one method
SubmitServerModules ==
    [load : {"ok"}, getServerSideProps : BOOLEAN, form : {FALSE},
     loader : {FALSE}, onRequest : {<<>>, <<"POST">>, <<"PUT">>}]

\* Promise.all of the four module loads; [page = {}, server = {}, ...]; ctx
SubmitLoad ==
    /\ impl = "part_013"
    /\ pc = "load"
    /\ \E page \in RoutePageModules("handler", route),
          server \in IF route = <<"b">> THEN {EmptyServerModule}
                     ELSE SubmitServerModules \cup {FailedServerModule},
          app \in AppModules,
          document \in DocumentModules :
        LET failures == LoadFailures(page, server, app, document) IN
        IF failures # {}
        THEN /\ \E e \in failures : Reject(e)
             /\ UNCHANGED <<mods, ctx>>
        ELSE /\ mods' = [page |-> IF page = "undefined" THEN "noDefault" ELSE page,
                         server |-> server, app |-> app, document |-> document]
             /\ ctx' = [key |-> route, formData |-> Undef]
             /\ pc' = "onRequest"
             /\ UNCHANGED <<outcome, resp, reason>>
    /\ UNCHANGED <<oracle, calls, formData, via, caught, recoveries, errorMods,
                   custom, nextCalls, nextStart, nextLog>>
    /\ UNCHANGED_request
    /\ loads' = RouteLoaded(loads)

\* const allowed = new Set(Object.keys(onRequest)); if (page.default)
\* allowed.add("GET")
AllowedMethods ==
    AddAll(mods.server.onRequest, IF mods.page = "ok" THEN <<"GET">> ELSE <<>>)

\* const handler = onRequest[method]; if (handler) return handler(ctx, next)
\* with formHandler of onFormSubmit as the handler, up to its await; then
\* the GET render, the 405 and the 404
SubmitOnRequest ==
    /\ impl = "part_013"
    /\ pc = "onRequest"
    /\ IF HasHandler(mods.server, method)
       THEN /\ calls' = Append(calls, CallWith("onRequest", route, ctx))
            /\ IF FORM_CONTENT_TYPE_RE(req.contentType)
               THEN /\ pc' = "form"
                    /\ UNCHANGED <<outcome, resp, reason>>
               ELSE \* return next(): Promise.resolve({ status: 415, ... })
                    Fulfil(Empty(415))
       ELSE /\ calls' = calls
            /\ IF method = "GET" /\ mods.page = "ok"
               THEN /\ pc' = "render"
                    /\ UNCHANGED <<outcome, resp, reason>>
               ELSE IF AllowedMethods # <<>>
               THEN Fulfil(Response(405, {<<"allow", AllowedMethods>>}, AbsentBody))
               ELSE Fulfil(Empty(404))
    /\ UNCHANGED <<mods, ctx, oracle, formData, via, caught, recoveries,
                   errorMods, custom, nextCalls, nextStart, nextLog>>
    /\ UNCHANGED_request
    /\ UNCHANGED loads

\* formHandler leaving ctx as it was
StoreNothing(context, value) == context

\* ctx.formData = value
StoreFormData(context, value) == [context EXCEPT !.formData = value]

\* ctx.formData = await process(ctx); return ctx.render()
SubmitProcess ==
    /\ impl = "part_013"
    /\ pc = "form"
    /\ calls' = Append(calls, CallWith("process", route, ctx))
    /\ \E b \in Behaviours({FormResult}) :
        /\ Decide("form", Behaviours({FormResult}), b)
        /\ IF b.kind = "throw"
           THEN /\ Reject(b.value)
                /\ UNCHANGED ctx
           ELSE /\ ctx' = StoreFormData(ctx, b.value)
                /\ pc' = "render"
                /\ UNCHANGED <<outcome, resp, reason>>
    /\ UNCHANGED <<mods, formData, via, caught, recoveries, errorMods, custom,
                   nextCalls, nextStart, nextLog>>
    /\ UNCHANGED_request
    /\ UNCHANGED loads

\* the Response render() makes of the hook's result and ctx.formData
RenderPage(serverSideProps) ==
    IF serverSideProps.redirect.t # "undefined"
    THEN redirect(serverSideProps.redirect.url,
                  Coalesce(serverSideProps.status, Num(302)).v)
    ELSE Response(Coalesce(serverSideProps.status,
                           Num(IF route = NotFoundKey THEN 404 ELSE 200)).v,
                  {<<"content-type", <<"text/html">>>>},
                  ReactBody(Element(route, route # NotFoundKey),
                            [pageData |->
                                [props |-> Coalesce(serverSideProps.props, EmptyProps),
                                 formData |-> ctx.formData]]))

\* ctx.render(): the four must(), (await server.getServerSideProps?.(ctx)) ?? {}
\* and the Response
SubmitRender ==
    /\ impl = "part_013"
    /\ pc = "render"
    /\ IF mods.app = "noDefault"
       THEN /\ Reject(TypeError("_app default"))
            /\ UNCHANGED <<oracle, calls>>
       ELSE IF mods.page = "noDefault"
       THEN /\ Reject(TypeError("page default"))
            /\ UNCHANGED <<oracle, calls>>
       ELSE IF mods.document = "noRenderHead"
       THEN /\ Reject(TypeError("_document renderHead"))
            /\ UNCHANGED <<oracle, calls>>
       ELSE IF mods.document = "noRenderTail"
       THEN /\ Reject(TypeError("_document renderTail"))
            /\ UNCHANGED <<oracle, calls>>
       ELSE IF ~mods.server.getServerSideProps
       THEN /\ Fulfil(RenderPage(SSP(Undef, Undef, Undef)))
            /\ UNCHANGED <<oracle, calls>>
       ELSE /\ calls' = Append(calls, CallWith("getServerSideProps", route, ctx))
            /\ \E b \in Behaviours(GsspReturns) :
                /\ Decide("getServerSideProps", Behaviours(GsspReturns), b)
                /\ IF b.kind = "throw"
                   THEN Reject(b.value)
                   ELSE Fulfil(RenderPage(
                           Coalesce(b.value, SSP(Undef, Undef, Undef))))
    /\ UNCHANGED <<mods, ctx, formData, via, caught, recoveries, errorMods,
                   custom, nextCalls, nextStart, nextLog>>
    /\ UNCHANGED_request
    /\ UNCHANGED loads

SubmitInit ==
    /\ impl = "part_013"
    /\ Idle
    /\ Inert
    /\ Elsewhere
    /\ Apart

SubmitNext ==
    \/ \E r \in Requests(impl) : Receive(r)
    \/ SubmitLoad
    \/ SubmitOnRequest
    \/ SubmitProcess
    \/ SubmitRender
    \/ Return

SubmitSpec == SubmitInit /\ [][SubmitNext]_vars

\* ------------------- the page being rendered calls the loader of its context

MaxLoaderCalls == 1

\* <DataLoaderContext.Provider value={this.context.loader}>: a component of
\* the page in the Response's body calls useLoader()(...args) while it renders.
\* The loader is the one getLoader() made before `try`: it calls the loader of
\* the matched route's server module with the dispatcher's serverSideContext
\* object, as that object is by then.
UseLoader ==
    /\ impl = "server"
    /\ pc = "done"
    /\ outcome = "fulfilled"
    /\ resp.body.kind = "react"
    /\ mods.server.loader
    /\ Cardinality({i \in DOMAIN calls : calls[i].hook = "loader"}) < MaxLoaderCalls
    /\ calls' = Append(calls, Call("loader", route, ctx.error))
    /\ UNCHANGED <<pc, mods, ctx, oracle, formData, via, caught, recoveries,
                   loads, errorMods, custom, nextCalls, nextStart, nextLog,
                   outcome, resp, reason>>
    /\ UNCHANGED_request

RenderNext ==
    \/ Next
    \/ UseLoader

\* the dispatcher, and the render of the page it answered with
RenderSpec == Init /\ [][RenderNext]_vars

\* ------------------------- ErrorRecovery, for every value it can be handed

\* getServerSideProps of page a threw `error` on GET /a and the catch block
\* is entered
RecoveryInit ==
    /\ impl = "server"
    /\ phase = "live"
    /\ pc = "catch"
    /\ req = [method |-> "GET", pathname |-> <<"/", "a">>,
              contentType |-> <<>>, search |-> "plain"]
    /\ method = "GET"
    /\ route = <<"a">>
    /\ mods = [page |-> "ok",
               server |-> [EmptyServerModule EXCEPT !.getServerSideProps = TRUE],
               app |-> "ok", document |-> "ok"]
    /\ ctx = [key |-> <<"a">>, error |-> Undef]
    /\ \E error \in ThrownValues :
          /\ caught = error
          /\ oracle = [NoOracle EXCEPT !.getServerSideProps = Throw(error)]
    /\ calls = <<Call("getServerSideProps", <<"a">>, Undef)>>
    /\ formData = Undef
    /\ via = "none"
    /\ recoveries = 1
    /\ loads = RouteLoaded(NoLoads)
    /\ errorMods = NoErrorMods
    /\ custom = "none"
    /\ nextCalls = 0
    /\ nextStart = 0
    /\ nextLog = <<>>
    /\ reference = NoReference
    /\ outcome = "pending"
    /\ resp = NoResponse
    /\ reason = Undef
    /\ Inert
    /\ Elsewhere
    /\ Apart

RecoveryNext ==
    \/ ServerCatch
    \/ ServerErrorProps

RecoverySpec == RecoveryInit /\ [][RecoveryNext]_vars

\* ====================== ReactBody: consuming a Response's body ============
\* The render itself is ReactDOM's: its shell becomes ready or fails, a
\* suspended subtree completes later, fails, or is given up when the render
\* is aborted; its stream carries the shell and then the subtree.

\* the four consumption methods of a Body
ConsumptionMethods ==
    {"rawNodeStream", "nodeStream", "rawReadableStream", "readableStream"}

\* the handlers of the worker adapter and of the node adapter are handed
\* { prefix, suffix, stream } by the body and compose them themselves
Consumers == ConsumptionMethods \cup {"worker", "node"}

NodeForms == {"rawNodeStream", "nodeStream", "node"}
ComposedForms == {"nodeStream", "readableStream", "worker", "node"}

\* the consumers of a build: the adapter is written against StreamOptions
ConsumersOf(build) ==
    IF build = "server" THEN ConsumptionMethods ELSE Consumers

\* the options of a build: only StreamOptions has waitForAllReady
OptionsOf(build) ==
    [waitForAllReady : IF build = "server" THEN {FALSE} ELSE BOOLEAN,
     signal : BOOLEAN]

\* a composed form that renders for itself, besides driving the raw form
RendersStartedTwice(form) ==
    IF form \in ComposedForms THEN 2 ELSE 1

\* the renders one call of a consumption method starts: the raw forms call
\* getApp() and ReactDOM once, the composed forms await the raw form
RendersStarted(form) ==
    IF form \in Consumers THEN 1 ELSE 0

\* resolve(...) and reject(...) of the raw form's promise: a settled promise
\* keeps its state
ResolveRaw(promise) ==
    [promise EXCEPT !.state = IF @ = "pending" THEN "resolved" ELSE @,
                    !.resolves = @ + 1]

RejectRaw(promise) ==
    [promise EXCEPT !.state = IF @ = "pending" THEN "rejected" ELSE @,
                    !.rejects = @ + 1]

\* the stream handed over at shell-ready whatever the options say
AtShellAlways(promise) == ResolveRaw(promise)

\* onShellReady / the promise of renderToReadableStream: the stream is handed
\* over, unless waitForAllReady asks for stream.allReady / onAllReady
AtShell(promise) ==
    IF impl = "handler" /\ options.waitForAllReady
    THEN promise ELSE ResolveRaw(promise)

\* onAllReady / stream.allReady
AtAllReady(promise) ==
    IF impl = "handler" /\ options.waitForAllReady
    THEN ResolveRaw(promise) ELSE promise

\* a shell error that is only reported
AtShellErrorIgnored(promise) == promise

\* onShellError / the rejection of renderToReadableStream
AtShellError(promise) == RejectRaw(promise)

\* a render that no signal can reach
AbortNeverReaches == FALSE

\* whether triggering the signal aborts the render: through the body's own
\* listener in the node forms, through the signal given to ReactDOM otherwise
AbortReaches ==
    IF consumer \in NodeForms THEN listener ELSE options.signal

\* the first call of a consumption method: getApp() and the render
Acquire(form, streamOptions) ==
    /\ consumer = "none"
    /\ consumer' = form
    /\ options' = streamOptions
    /\ renders' = renders + RendersStarted(form)
    /\ react' = [react EXCEPT !.shell = "pending"]
    /\ listener' = (form \in NodeForms /\ streamOptions.signal)
    /\ acquired' = [acquired EXCEPT !.state = "pending"]
    /\ UNCHANGED <<signalled, onErrors, pipe, output, outputEnd, lock, handedOut>>

Consume(form, streamOptions) ==
    /\ Acquire(form, streamOptions)
    /\ UNCHANGED <<dvars, svars, rvars, xvars>>

\* the shell completed: with nothing suspended the render is all ready too
ShellReady(suspended) ==
    /\ react.shell = "pending"
    /\ react' = [react EXCEPT !.shell = "ready", !.suspended = suspended,
                              !.allReady = ~suspended, !.ready = 1]
    /\ acquired' = IF suspended THEN AtShell(acquired)
                   ELSE AtAllReady(AtShell(acquired))
    /\ listener' = (suspended /\ listener)
    /\ UNCHANGED <<consumer, options, renders, signalled, onErrors, pipe,
                   output, outputEnd, lock, handedOut>>
    /\ UNCHANGED <<dvars, svars, rvars, xvars>>

\* the shell failed: onError, then onShellError / the promise rejects
ShellFails ==
    /\ react' = [react EXCEPT !.shell = "error"]
    /\ onErrors' = onErrors + 1
    /\ acquired' = AtShellError(acquired)
    /\ listener' = FALSE

ShellError ==
    /\ react.shell = "pending"
    /\ ShellFails
    /\ UNCHANGED <<consumer, options, renders, signalled, pipe, output,
                   outputEnd, lock, handedOut>>
    /\ UNCHANGED <<dvars, svars, rvars, xvars>>

\* the suspended subtree is done, rendered or left to the client: all ready
SubtreeDone ==
    /\ react' = [react EXCEPT !.suspended = FALSE, !.allReady = TRUE,
                              !.ready = @ + 1]
    /\ acquired' = AtAllReady(acquired)
    /\ listener' = FALSE

SubtreeReady ==
    /\ react.shell = "ready"
    /\ react.suspended
    /\ SubtreeDone
    /\ UNCHANGED <<consumer, options, renders, signalled, onErrors, pipe,
                   output, outputEnd, lock, handedOut>>
    /\ UNCHANGED <<dvars, svars, rvars, xvars>>

\* an error inside the suspended subtree, after the shell: onError
RenderError ==
    /\ react.shell = "ready"
    /\ react.suspended
    /\ onErrors' = onErrors + 1
    /\ SubtreeDone
    /\ UNCHANGED <<consumer, options, renders, signalled, pipe, output,
                   outputEnd, lock, handedOut>>
    /\ UNCHANGED <<dvars, svars, rvars, xvars>>

\* options.signal is triggered. Before the shell an aborted render fails its
\* shell or, in some versions of ReactDOM, ends with no callback at all;
\* after the shell the suspended subtree is given up with an onError.
Abort ==
    /\ consumer # "none"
    /\ options.signal
    /\ ~signalled
    /\ signalled' = TRUE
    /\ IF AbortReaches /\ react.shell = "pending"
       THEN \/ ShellFails
            \/ /\ react' = [react EXCEPT !.shell = "closed", !.aborted = TRUE]
               /\ UNCHANGED <<onErrors, acquired, listener>>
       ELSE IF AbortReaches /\ react.shell = "ready" /\ react.suspended
       THEN /\ onErrors' = onErrors + 1
            /\ react' = [react EXCEPT !.suspended = FALSE, !.allReady = TRUE,
                                      !.aborted = TRUE, !.ready = @ + 1]
            /\ acquired' = AtAllReady(acquired)
            /\ listener' = FALSE
       ELSE UNCHANGED <<react, onErrors, acquired, listener>>
    /\ UNCHANGED <<consumer, options, renders, pipe, output, outputEnd, lock,
                   handedOut>>
    /\ UNCHANGED <<dvars, svars, rvars, xvars>>

\* The raw form resolved and the composed form goes on. nodeStream:
\* proxy.write(prefix()) puts the prefix in the PassThrough at once, then
\* stream.pipe(proxy). readableStream and the worker: write(prefix()) takes
\* the writer and the write is pending. The composed stream is returned.
Compose ==
    /\ consumer \in ComposedForms
    /\ acquired.state = "resolved"
    /\ pipe = "none"
    /\ handedOut' = TRUE
    /\ IF consumer \in NodeForms
       THEN /\ output' = Append(output, "prefix")
            /\ pipe' = "piping"
            /\ UNCHANGED lock
       ELSE /\ pipe' = "prefix"
            /\ lock' = TRUE
            /\ UNCHANGED output
    /\ UNCHANGED <<consumer, options, renders, react, signalled, listener,
                   acquired, onErrors, outputEnd>>
    /\ UNCHANGED <<dvars, svars, rvars, xvars>>

\* writer.write(prefix) resolved: releaseLock(), then
\* stream.pipeTo(writable, { preventClose: true }) locks the writable
PrefixWritten ==
    /\ pipe = "prefix"
    /\ output' = Append(output, "prefix")
    /\ pipe' = "piping"
    /\ lock' = TRUE
    /\ UNCHANGED <<consumer, options, renders, react, signalled, listener,
                   acquired, onErrors, outputEnd, handedOut>>
    /\ UNCHANGED <<dvars, svars, rvars, xvars>>

\* a chunk of the render's stream is piped into the composed stream
Transfer ==
    /\ pipe = "piping"
    /\ react.sent < react.ready
    /\ react' = [react EXCEPT !.sent = @ + 1]
    /\ output' = Append(output, "content")
    /\ UNCHANGED <<consumer, options, renders, signalled, listener, acquired,
                   onErrors, pipe, outputEnd, lock, handedOut>>
    /\ UNCHANGED <<dvars, svars, rvars, xvars>>

\* the content counted as drained as soon as the shell was sent
DrainedAfterShell == react.sent >= 1

\* the render's stream has ended and all of it was piped: pipeTo resolves,
\* pipe() ends the PassThrough
Drained == react.allReady /\ react.sent = react.ready

\* The content has drained. nodeStream: the PassThrough's flush() pushes
\* suffix() and the stream ends. readableStream and the worker: pipeTo
\* released the writable, write(suffix()) takes the writer.
PipeEnd ==
    /\ pipe = "piping"
    /\ Drained
    /\ IF consumer \in NodeForms
       THEN /\ output' = Append(output, "suffix")
            /\ outputEnd' = "closed"
            /\ pipe' = "done"
            /\ UNCHANGED lock
       ELSE /\ pipe' = "suffix"
            /\ lock' = TRUE
            /\ UNCHANGED <<output, outputEnd>>
    /\ UNCHANGED <<consumer, options, renders, react, signalled, listener,
                   acquired, onErrors, handedOut>>
    /\ UNCHANGED <<dvars, svars, rvars, xvars>>

\* writer.write(suffix) resolved: releaseLock(), then writable.close()
SuffixWritten ==
    /\ pipe = "suffix"
    /\ output' = Append(output, "suffix")
    /\ lock' = FALSE
    /\ outputEnd' = "closed"
    /\ pipe' = "done"
    /\ UNCHANGED <<consumer, options, renders, react, signalled, listener,
                   acquired, onErrors, handedOut>>
    /\ UNCHANGED <<dvars, svars, rvars, xvars>>

\* a step of the render
Render ==
    \/ \E suspended \in BOOLEAN : ShellReady(suspended)
    \/ ShellError
    \/ SubtreeReady
    \/ RenderError

\* a step of the composed stream
Stream ==
    \/ Compose
    \/ PrefixWritten
    \/ Transfer
    \/ PipeEnd
    \/ SuffixWritten

BodyInit ==
    /\ impl \in {"server", "handler"}
    /\ Idle
    /\ Inert
    /\ Elsewhere
    /\ Apart

BodyNext ==
    \/ \E form \in ConsumersOf(impl), streamOptions \in OptionsOf(impl) :
          Consume(form, streamOptions)
    \/ Render
    \/ Abort
    \/ Stream

BodySpec == BodyInit /\ [][BodyNext]_vars

\* the streams make progress, and so does the shell; a suspended subtree may
\* stay suspended for ever
FairBodySpec ==
    /\ BodySpec
    /\ WF_vars(Stream)
    /\ WF_vars(ShellError \/ \E suspended \in BOOLEAN : ShellReady(suspended))

\* ------------------- rawNodeStream() and a signal that may be aborted already

\* a body not yet consumed, and the caller's signal, aborted or not
SignalInit ==
    /\ impl \in {"server", "handler"}
    /\ Idle
    /\ Elsewhere
    /\ Apart
    /\ consumer = "none"
    /\ options = [waitForAllReady |-> FALSE, signal |-> FALSE]
    /\ renders = 0
    /\ react = [shell |-> "none", suspended |-> FALSE, allReady |-> FALSE,
                aborted |-> FALSE, ready |-> 0, sent |-> 0]
    /\ signalled \in BOOLEAN
    /\ listener = FALSE
    /\ acquired = [state |-> "none", resolves |-> 0, rejects |-> 0]
    /\ onErrors = 0
    /\ pipe = "none"
    /\ output = <<>>
    /\ outputEnd = "open"
    /\ lock = FALSE
    /\ handedOut = FALSE

\* rawNodeStream(options), called directly or by nodeStream(options)
SignalNext ==
    \/ \E form \in NodeForms \cap ConsumersOf(impl),
          streamOptions \in OptionsOf(impl) :
          Consume(form, streamOptions)
    \/ Render
    \/ Abort
    \/ Compose \/ Transfer \/ PipeEnd

SignalSpec == SignalInit /\ [][SignalNext]_vars

\* ============== adapters: the node handler and its host response ==========

\* the two handlers: createHandler of src/src/adapters/node.ts and of
\* src/unnamed/part_009
NodeAdapters == {"node.ts", "part_009"}

\* what the handler asks of the body: part_009 pipes the stream nodeStream
\* composed, node.ts takes { prefix, suffix, stream } and composes them
FormOf(handler) == IF handler = "node.ts" THEN "node" ELSE "nodeStream"

\* whether the pipe into res ends it with its source: x.pipe(res) does,
\* proxy.pipe(res, { end: false }) does not
EndsHost(handler) == handler = "part_009"

\* the dispatcher resolved to a Response whose body streams
Answered(response) ==
    /\ phase = "live"
    /\ pc = "done"
    /\ req = [method |-> "GET", pathname |-> <<"/", "a">>,
              contentType |-> <<>>, search |-> "plain"]
    /\ method = "GET"
    /\ route = <<"a">>
    /\ mods = NoModules
    /\ ctx = [key |-> <<"a">>, error |-> Undef]
    /\ oracle = NoOracle
    /\ calls = <<>>
    /\ formData = Undef
    /\ via = "GET"
    /\ caught = Undef
    /\ recoveries = 0
    /\ loads = RouteLoaded(NoLoads)
    /\ errorMods = NoErrorMods
    /\ custom = "none"
    /\ nextCalls = 0
    /\ nextStart = 0
    /\ nextLog = <<>>
    /\ reference = NoReference
    /\ outcome = "fulfilled"
    /\ resp = response
    /\ reason = Undef

\* the Responses with a streaming body the handlers are given
StreamingResponses ==
    {render(Element(<<"a">>, TRUE), 200,
            RenderContext(<<"a">>, SSP(PageProps, status, Undef), Undef)) :
        status \in {Undef, Num(201), Num(404)}}

\* .then((response) => ...): res.statusCode = response.status and, the body
\* being an object, response.body.nodeStream(options)
Respond(streamOptions) ==
    /\ exchange.stage = "answered"
    /\ outcome = "fulfilled"
    /\ resp.body.kind = "react"
    /\ exchange' = [exchange EXCEPT !.stage = "body",
                                    !.statusCode = Num(resp.status)]
    /\ Acquire(FormOf(exchange.adapter), streamOptions)
    /\ UNCHANGED <<dvars, svars, rvars, devvars, cvars, lvars, pvars>>

\* x.pipe(res) / proxy.pipe(res, ...): a chunk of the composed stream reaches
\* the host response
HostWrite ==
    /\ exchange.stage = "body"
    /\ handedOut
    /\ exchange.written < Len(output)
    /\ exchange' = [exchange EXCEPT !.written = @ + 1]
    /\ UNCHANGED <<dvars, bvars, svars, rvars, devvars, cvars, lvars, pvars>>

\* the composed stream ended and all of it reached res: the pipe is over, and
\* res.end() is called if the pipe ends its destination
HostPipeEnd ==
    /\ exchange.stage = "body"
    /\ handedOut
    /\ outputEnd = "closed"
    /\ exchange.written = Len(output)
    /\ exchange' = [exchange EXCEPT !.stage = "piped", !.piped = TRUE,
                                    !.ended = EndsHost(exchange.adapter)]
    /\ UNCHANGED <<dvars, bvars, svars, rvars, devvars, cvars, lvars, pvars>>

\* nodeStream(options) rejected: .then(..., next) of part_009, the rejected
\* async callback and .catch(next) of node.ts
HostFail ==
    /\ exchange.stage = "body"
    /\ acquired.state = "rejected"
    /\ exchange' = [exchange EXCEPT !.stage = "failed", !.nexts = @ + 1]
    /\ UNCHANGED <<dvars, bvars, svars, rvars, devvars, cvars, lvars, pvars>>

Host ==
    \/ HostWrite
    \/ HostPipeEnd
    \/ HostFail

ExchangeInit ==
    /\ impl \in {"server", "handler"}
    /\ \E response \in StreamingResponses : Answered(response)
    /\ Inert
    /\ Elsewhere
    /\ \E handler \in NodeAdapters :
          exchange = [NoExchange EXCEPT !.adapter = handler,
                                        !.stage = "answered"]
    /\ NoDev
    /\ NoRuns
    /\ NoLoaders
    /\ routing = NoRouting

\* a step of the PassThrough the node forms compose in
PassThroughStep ==
    \/ Compose
    \/ Transfer
    \/ PipeEnd

ExchangeNext ==
    \/ \E streamOptions \in OptionsOf(impl) : Respond(streamOptions)
    \/ Render
    \/ Abort
    \/ PassThroughStep
    \/ Host

ExchangeSpec == ExchangeInit /\ [][ExchangeNext]_vars

\* the streams and the pipe into res make progress, and so does the shell
FairExchangeSpec ==
    /\ ExchangeSpec
    /\ WF_vars(PassThroughStep)
    /\ WF_vars(Host)
    /\ WF_vars(ShellError \/ \E suspended \in BOOLEAN : ShellReady(suspended))

\* ============== two invocations of one server, interleaved ================

\* the server module of a route: page a has a form handler and a
\* getServerSideProps hook, page b and the not-found page have none
ModuleOf(key) ==
    IF key = <<"a">>
    THEN [EmptyServerModule EXCEPT !.getServerSideProps = TRUE, !.form = TRUE]
    ELSE EmptyServerModule

\* a request and how the hooks of its route behave on it
RunInputs ==
    [req : [method : {"GET", "POST"}, pathname : {<<"/", "a">>, <<"/", "z">>},
            contentType : {<<FormLit>>}, search : {"plain"}],
     form : {Returns(FormResult), Throw(PlainError)},
     props : {Returns(SSP(PageProps, Undef, Undef)), Throw(HttpError)}]

KeyOf(input) == RouteOf(Slice1(input.req.pathname))

\* a hook call as an invocation records it: the hook and the context object
\* as it was when handed over
Handed(hook, of, context) == [hook |-> hook, of |-> of, context |-> context]

\* one serverSideContext kept by the server for all its invocations
ContextOfServer(i) == 1

\* const serverSideContext = { key, request, context, params }: an object of
\* the invocation that runs the statement
ContextOf(i) == i

Settle(r, response) == [r EXCEPT !.pc = "done", !.resp = response]

\* the four loads resolved: the context is made, and the try block runs up to
\* its first await or return
LoadStep(r, c) ==
    LET key == KeyOf(r.input)
        server == ModuleOf(key)
        m == r.input.req.method
    IN [context |-> [key |-> key, request |-> r.input.req, error |-> Undef],
        run |->
            IF key = NotFoundKey
            THEN IF m = "GET" THEN [r EXCEPT !.pc = "props"]
                 ELSE Settle(r, Empty(404))
            ELSE IF m = "POST" /\ server.form
            THEN IF FORM_CONTENT_TYPE_RE(r.input.req.contentType)
                 THEN [r EXCEPT !.pc = "form"]
                 ELSE Settle(r, Empty(415))
            ELSE IF m = "GET" THEN [r EXCEPT !.pc = "props"]
            ELSE Settle(r, Response(405,
                            {<<"allow", generateAllowHeader(server)>>},
                            AbsentBody))]

\* const formData = await server.form(serverSideContext)
FormStep(r, c) ==
    LET seen == Append(r.seen, Handed("form", KeyOf(r.input), c))
    IN [context |-> c,
        run |-> IF r.input.form.kind = "throw"
                THEN [r EXCEPT !.seen = seen, !.pc = "catch",
                               !.caught = r.input.form.value]
                ELSE [r EXCEPT !.seen = seen, !.pc = "props",
                               !.formData = r.input.form.value]]

\* await getServerSideProps(server, serverSideContext); return render(...)
PropsStep(r, c) ==
    LET key == KeyOf(r.input)
        element == Element(key, key # NotFoundKey)
        status == IF key = NotFoundKey THEN 404 ELSE 200
        seen == Append(r.seen, Handed("getServerSideProps", key, c))
    IN [context |-> c,
        run |->
            IF ~ModuleOf(key).getServerSideProps
            THEN Settle(r, render(element, status,
                     RenderContext(key, SSP(EmptyProps, Undef, Undef), r.formData)))
            ELSE IF r.input.props.kind = "throw"
            THEN [r EXCEPT !.seen = seen, !.pc = "catch",
                           !.caught = r.input.props.value]
            ELSE Settle([r EXCEPT !.seen = seen],
                     render(element, status,
                         RenderContext(key, r.input.props.value, r.formData)))]

\* catch (error): await Promise.all of the error route's two loads
CatchStep(r, c) ==
    [context |-> c, run |-> [r EXCEPT !.pc = "errorProps"]]

\* getServerSideProps(server, Object.assign(serverSideContext, { error })) of
\* the built-in error page, then render(<Component />, 500, { route, ... })
ErrorPropsStep(r, c) ==
    LET assigned == [c EXCEPT !.error = r.caught]
    IN [context |-> assigned,
        run |-> Settle([r EXCEPT !.seen =
                           Append(@, Handed("getServerSideProps", ErrorKey, assigned))],
                    render(Element(ErrorKey, FALSE), 500,
                        RenderContext(KeyOf(r.input), ErrorPageProps(assigned.error),
                                      Undef)))]

\* the step an invocation takes from where it stands
RunStep(r, c) ==
    CASE r.pc = "load" -> LoadStep(r, c)
      [] r.pc = "form" -> FormStep(r, c)
      [] r.pc = "props" -> PropsStep(r, c)
      [] r.pc = "catch" -> CatchStep(r, c)
      [] r.pc = "errorProps" -> ErrorPropsStep(r, c)

RECURSIVE Alone(_, _)
\* an invocation run to its end with nothing else going on
Alone(r, c) ==
    IF r.pc = "done" THEN [run |-> r, context |-> c]
    ELSE Alone(RunStep(r, c).run, RunStep(r, c).context)

Called(input) == [NoRun EXCEPT !.pc = "load", !.input = input]

\* server(request, context) is called: routing, and the four loads begin
RunCall(i, input) ==
    /\ run[i].pc = "idle"
    /\ run' = [run EXCEPT ![i] = Called(input)]
    /\ UNCHANGED <<contexts, exchange, devvars, lvars, dvars, bvars, svars, rvars, pvars>>

\* the invocation goes on from an await, up to its next one
RunOn(i, at) ==
    /\ run[i].pc = at
    /\ LET next == RunStep(run[i], contexts[ContextOf(i)])
       IN /\ run' = [run EXCEPT ![i] = next.run]
          /\ contexts' = [contexts EXCEPT ![ContextOf(i)] = next.context]
    /\ UNCHANGED <<exchange, devvars, lvars, dvars, bvars, svars, rvars, pvars>>

\* the Response was handed to the caller
RunReturn(i) ==
    /\ run[i].pc = "done"
    /\ run' = [run EXCEPT ![i] = NoRun]
    /\ UNCHANGED <<contexts, exchange, devvars, lvars, dvars, bvars, svars, rvars, pvars>>

ConcurrentInit ==
    /\ impl = "server"
    /\ Idle
    /\ Inert
    /\ Elsewhere
    /\ Apart

ConcurrentNext ==
    \/ \E i \in Callers, input \in RunInputs : RunCall(i, input)
    \/ \E i \in Callers : RunOn(i, "load")
    \/ \E i \in Callers : RunOn(i, "form")
    \/ \E i \in Callers : RunOn(i, "props")
    \/ \E i \in Callers : RunOn(i, "catch")
    \/ \E i \in Callers : RunOn(i, "errorProps")
    \/ \E i \in Callers : RunReturn(i)

ConcurrentSpec == ConcurrentInit /\ [][ConcurrentNext]_vars

\* ====================== fn(): the loader of a module ======================

MaxInvocations == 3

\* what a page is given for a module: a factory (a function returning the
\* module or its promise), or the module or its promise itself
ModuleValues ==
    {[t |-> "function", name |-> "factory"],
     [t |-> "function", name |-> "import"],
     [t |-> "object", name |-> "module"],
     [t |-> "object", name |-> "promise"]}

\* what the n-th call of a factory returns
Product(factory, n) == [t |-> "object", name |-> factory.name, call |-> n]

\* a loader that calls a function once, when made, and keeps what it returned
fnMemoized(value) ==
    [calls |-> "closure",
     of |-> IF value.t = "function" THEN Product(value, 1) ELSE value]

\* fn(value): typeof value === "function" ? value : () => value
fn(value) ==
    [calls |-> IF value.t = "function" THEN "value" ELSE "closure",
     of |-> value]

\* route.module() / route.serverModule(): the loader is invoked
Invoke(slot) ==
    /\ Len(invoked[slot].results) < MaxInvocations
    /\ invoked' = [invoked EXCEPT ![slot] =
          IF loaders[slot].calls = "value"
          THEN [@ EXCEPT !.factoryCalls = @ + 1,
                         !.results = Append(@, Product(loaders[slot].of,
                                                       invoked[slot].factoryCalls + 1))]
          ELSE [@ EXCEPT !.results = Append(@, loaders[slot].of)]]
    /\ UNCHANGED <<loaders, exchange, devvars, cvars, dvars, bvars, svars, rvars, pvars>>

\* createPageRouter: module: fn(contents.module),
\* serverModule: fn(contents.serverModule ?? {})
LoaderInit ==
    /\ impl = "server"
    /\ Idle
    /\ Inert
    /\ Elsewhere
    /\ exchange = NoExchange
    /\ NoDev
    /\ NoRuns
    /\ routing = NoRouting
    /\ \E given \in [ModuleSlots -> ModuleValues] :
          /\ loaders = [slot \in ModuleSlots |-> fn(given[slot])]
          /\ invoked = [slot \in ModuleSlots |->
                           [given |-> given[slot], factoryCalls |-> 0,
                            results |-> <<>>]]

LoaderNext == \E slot \in ModuleSlots : Invoke(slot)

LoaderSpec == LoaderInit /\ [][LoaderNext]_vars

\* =================== dev(): the page table under hot reload ===============

MaxSites == 3

\* a path relative to cwd, cut where filesToList looks at it
PageFile == <<"pages/", "a", "/", "index", ".", "tsx">>
ErrorFile == <<"_error", ".", "tsx">>

\* the files of the project: a page, and the error page
WatchedFiles == {PageFile, ErrorFile}

\* getChokidar(cwd): files that match the watched patterns. The dev.ts of
\* src/src (which creates the server build) watches pages/**/index.x and
\* _@(document|app|error|404).x; part_012 (the handler build) also watches the
\* .server variants of the pages, of _error and of _404
getChokidar(build) ==
    {PageFile, <<"pages/", "index", ".", "tsx">>, <<"_document", ".", "tsx">>,
     <<"_app", ".", "tsx">>, ErrorFile, <<"_404", ".", "tsx">>}
        \cup IF build = "handler"
             THEN {<<"pages/", "a", "/", "index", ".", "server", ".", "tsx">>,
                   <<"_error", ".", "server", ".", "tsx">>,
                   <<"_404", ".", "server", ".", "tsx">>}
             ELSE {}

\* file.startsWith(prefix)
startsWith(file, prefix) ==
    /\ Len(file) >= Len(prefix)
    /\ SubSeq(file, 1, Len(prefix)) = prefix

\* file.indexOf(".server.") > -1
IsServerPath(file) ==
    \E i \in 1..(Len(file) - 2) :
        file[i] = "." /\ file[i + 1] = "server" /\ file[i + 2] = "."

\* file.slice(6, file.lastIndexOf("/")) of a file that starts with "pages/"
RouteOfFile(file) ==
    LET slashes == {i \in DOMAIN file : file[i] = "/"}
    IN IF slashes = {} THEN <<>>
       ELSE SubSeq(file, 2, (CHOOSE i \in slashes : \A j \in slashes : j <= i) - 1)

\* the branch of filesToList a file takes
Branch(build, file) ==
    IF startsWith(file, <<"pages/">>) THEN "pages"
    ELSE IF build = "server"
    THEN IF startsWith(file, <<"_document", ".">>) THEN "document"
         ELSE IF startsWith(file, <<"_app", ".">>) THEN "app"
         ELSE IF startsWith(file, <<"_error", ".">>) THEN "error"
         ELSE IF startsWith(file, <<"_404", ".">>) THEN "notFound"
         ELSE "throw"
    ELSE IF startsWith(file, <<"_404", ".">>) THEN "notFound"
         ELSE IF startsWith(file, <<"_document", ".">>) THEN "document"
         ELSE IF startsWith(file, <<"_app", ".">>) THEN "app"
         ELSE "throw"

\* filesToList(cwd, files): the List a site is created from, and the files
\* for which it throws TypeError(`Unhandled file`) instead of returning it
filesToList(build, watched) ==
    LET of(branch) == {file \in watched : Branch(build, file) = branch}
    IN [pages |-> {RouteOfFile(file) : file \in of("pages")},
        serverPaths |-> IF build = "handler"
                        THEN {RouteOfFile(file) :
                                file \in {f \in of("pages") : IsServerPath(f)}}
                        ELSE {},
        document |-> of("document") # {},
        app |-> of("app") # {},
        error |-> of("error") # {},
        notFound |-> of("notFound") # {},
        unhandled |-> of("throw")]

\* filesToList threw
Throws(list) == list.unhandled # {}

\* a file event that edits the page table of the cached site where it is
InvalidateInPlace(watched) ==
    /\ cache' = cache
    /\ sites' = IF cache = 0 THEN sites
                 ELSE [sites EXCEPT ![cache] = filesToList(impl, watched)]

\* a file event that leaves `cache` as it is
InvalidateSkipped(watched) ==
    /\ cache' = cache
    /\ sites' = sites

\* cache = null: the site that was cached is left as it is
Invalidate(watched) ==
    /\ cache' = 0
    /\ sites' = sites

\* watcher.on("add", ...)
FileAdd(path) ==
    /\ path \notin files
    /\ files' = files \cup {path}
    /\ Invalidate(files')
    /\ UNCHANGED <<inflight, exchange, cvars, lvars, dvars, bvars, svars, rvars, pvars>>

\* watcher.on("unlink", ...)
FileUnlink(path) ==
    /\ path \in files
    /\ files' = files \ {path}
    /\ Invalidate(files')
    /\ UNCHANGED <<inflight, exchange, cvars, lvars, dvars, bvars, svars, rvars, pvars>>

\* const { site } = cache ?? reloadCache(); site(fromNodeRequest(req), {}):
\* the site is taken, or created from the files as they are, and its router
\* matches the pathname before the first await. When filesToList throws,
\* reloadCache() is left before `cache = ...` and the request has no site.
DevObtain(i) ==
    /\ inflight[i].stage = "idle"
    /\ cache = 0 => Len(sites) < MaxSites
    /\ IF cache = 0 /\ Throws(filesToList(impl, files))
       THEN /\ inflight' = [inflight EXCEPT ![i].stage = "failed"]
            /\ UNCHANGED <<cache, sites>>
       ELSE /\ sites' = IF cache = 0
                        THEN Append(sites, filesToList(impl, files)) ELSE sites
            /\ cache' = IF cache = 0 THEN Len(sites') ELSE cache
            /\ inflight' = [inflight EXCEPT ![i] =
                  [stage |-> "handling", site |-> cache', table |-> sites'[cache'],
                   matched |-> <<"a">> \in sites'[cache'].pages,
                   sawError |-> FALSE]]
    /\ UNCHANGED <<files, exchange, cvars, lvars, dvars, bvars, svars, rvars, pvars>>

\* the handling of the request fails after an await: the catch block of the
\* site takes its errorRoute, the project's error page or the built-in one
DevRecover(i) ==
    /\ impl = "server"
    /\ inflight[i].stage = "handling"
    /\ inflight' = [inflight EXCEPT ![i].stage = "recovered",
                                    ![i].sawError = sites[inflight[i].site].error]
    /\ UNCHANGED <<files, cache, sites, exchange, cvars, lvars, dvars, bvars, svars, rvars, pvars>>

\* the response was piped into res, or the failure was answered
DevFinish(i) ==
    /\ inflight[i].stage \in {"handling", "recovered", "failed"}
    /\ inflight' = [inflight EXCEPT ![i] = NoDevRequest]
    /\ UNCHANGED <<files, cache, sites, exchange, cvars, lvars, dvars, bvars, svars, rvars, pvars>>

\* dev(): no file seen yet, and reloadCache() called once before any request
DevInit ==
    /\ impl \in {"server", "handler"}
    /\ Idle
    /\ Inert
    /\ Elsewhere
    /\ exchange = NoExchange
    /\ NoRuns
    /\ NoLoaders
    /\ routing = NoRouting
    /\ files = {}
    /\ sites = <<filesToList(impl, {})>>
    /\ cache = 1
    /\ inflight = [i \in DevRequests |-> NoDevRequest]

DevNext ==
    \/ \E path \in WatchedFiles : FileAdd(path)
    \/ \E path \in WatchedFiles : FileUnlink(path)
    \/ \E i \in DevRequests : DevObtain(i)
    \/ \E i \in DevRequests : DevRecover(i)
    \/ \E i \in DevRequests : DevFinish(i)

DevSpec == DevInit /\ [][DevNext]_vars

\* ------------------------------- list(): the files of a project, classified

\* watcher.on("ready", () => resolve(filesToList(cwd, files)))
ListReady ==
    /\ sites = <<>>
    /\ sites' = <<filesToList(impl, files)>>
    /\ UNCHANGED <<files, cache, inflight, exchange, cvars, lvars, dvars, bvars,
                   svars, rvars, pvars>>

\* list(options): the watcher reported the files of the project that match
\* its patterns
ListInit ==
    /\ impl \in {"server", "handler"}
    /\ Idle
    /\ Inert
    /\ Elsewhere
    /\ exchange = NoExchange
    /\ NoRuns
    /\ NoLoaders
    /\ routing = NoRouting
    /\ files \in SUBSET getChokidar(impl)
    /\ sites = <<>>
    /\ cache = 0
    /\ inflight = [i \in DevRequests |-> NoDevRequest]

ListNext == ListReady

ListSpec == ListInit /\ [][ListNext]_vars

\* ================ createPageRouter(): the params of a Route ===============

MaxValueLen == 2

\* a captured value, cut into what decodeURIComponent reads at a time: a
\* character, the escape of a character ("%41" for "A"), a "%" that no two
\* hex digits follow, and an escape that is not UTF-8
ValueUnits == {"a", "%41", "%zz", "%FF"}

CapturedValues == UNION {[1..n -> ValueUnits] : n \in 1..MaxValueLen}

\* the keys of the one route pattern, in the order the router reports them
RouteKeys == <<"x", "y">>

\* what stands for the exception in place of the decoded text
URIError == <<"URIError">>

\* decodeURIComponent(value): the text with every escape replaced by its
\* character, or a URIError when one escape cannot be decoded
decodeURIComponent(value) ==
    IF \E i \in DOMAIN value : value[i] \in {"%zz", "%FF"}
    THEN URIError
    ELSE [i \in DOMAIN value |-> IF value[i] = "%41" THEN "A" ELSE value[i]]

\* decode(value) without its try/catch
decodeOrThrow(value) == decodeURIComponent(value)

\* decode(value): try { return decodeURIComponent(value) } catch { return value }
decode(value) ==
    IF decodeURIComponent(value) = URIError
    THEN value ELSE decodeURIComponent(value)

\* router(pathname) of createPageRouter for a pathname its one pattern matches:
\* the first match becomes the Route, params = new Map(zip(keys, map(values,
\* decode))); an exception of decode would leave router() and with it server()
Match ==
    /\ routing.stage = "matched"
    /\ LET decoded == [i \in DOMAIN routing.values |-> decode(routing.values[i])]
       IN IF \E i \in DOMAIN decoded : decoded[i] = URIError
          THEN routing' = [routing EXCEPT !.stage = "done", !.threw = TRUE]
          ELSE routing' = [routing EXCEPT
                  !.stage = "done",
                  !.key = <<"a">>,
                  !.params = [i \in DOMAIN RouteKeys |->
                                 <<RouteKeys[i], decoded[i]>>]]
    /\ UNCHANGED <<dvars, bvars, svars, rvars, exchange, devvars, cvars, lvars>>

\* the router of @borderless/router matched the pathname and captured one
\* value per key, as the text of the pathname
RoutingInit ==
    /\ impl = "server"
    /\ Idle
    /\ Inert
    /\ Elsewhere
    /\ exchange = NoExchange
    /\ NoDev
    /\ NoRuns
    /\ NoLoaders
    /\ \E values \in [DOMAIN RouteKeys -> CapturedValues] :
          routing = [NoRouting EXCEPT !.stage = "matched", !.values = values]

RoutingNext == Match

RoutingSpec == RoutingInit /\ [][RoutingNext]_vars

\* ================= getApp(): the hydration bootstrap script ===============

\* the characters of a string of the page data; "script" and "SCRIPT" stand
\* for that word in lower case and in any other case
Chars == {"<", "/", "!", "-", "\\", "script", "SCRIPT"}

Texts == UNION {[1..n -> Chars] : n \in 0..MaxTextLen}

RECURSIVE Quoted(_)
\* the characters of a string inside its JSON quotes: a backslash is doubled
Quoted(text) ==
    IF text = <<>> THEN <<>>
    ELSE (IF Head(text) = "\\" THEN <<"\\", "\\">> ELSE <<Head(text)>>)
             \o Quoted(Tail(text))

\* JSON.stringify(pageData), for { props: { value: text }, formData: undefined }
JSONstringify(text) ==
    <<"{\"props\":{\"value\":", "\"">> \o Quoted(text) \o <<"\"", "}}">>

IsScriptWord(char) == char \in {"script", "SCRIPT"}

\* /\<(!--|script|\/script)/gi matches at position i
Matches(text, i) ==
    /\ text[i] = "<"
    /\ \/ /\ i + 3 <= Len(text)
          /\ text[i + 1] = "!"
          /\ text[i + 2] = "-"
          /\ text[i + 3] = "-"
       \/ /\ i + 1 <= Len(text)
          /\ IsScriptWord(text[i + 1])
       \/ /\ i + 2 <= Len(text)
          /\ text[i + 1] = "/"
          /\ IsScriptWord(text[i + 2])

RECURSIVE Replace(_, _)
\* .replace(/\<(!--|script|\/script)/gi, "<\\$1"), from position i on
Replace(text, i) ==
    IF i > Len(text) THEN <<>>
    ELSE (IF Matches(text, i) THEN <<"<", "\\">> ELSE <<text[i]>>)
             \o Replace(text, i + 1)

\* stringifyForScript(data) of src/src/server.tsx
stringifyForScript(text) == Replace(JSONstringify(text), 1)

\* getApp() making renderOptions: the build of src/src/server.tsx emits the
\* script when the route has a scriptUrl, the handler build when hydrate
GetApp(emits) ==
    /\ bootstrap = [t |-> "unset"]
    /\ bootstrap' =
          IF ~emits THEN [t |-> "undefined"]
          ELSE IF impl = "server"
          THEN [t |-> "string",
                v |-> <<"window.__SITE_DATA__=">> \o stringifyForScript(pageText)]
          ELSE [t |-> "string",
                v |-> <<"window.__DATA__=">> \o JSONstringify(pageText)]
    /\ UNCHANGED <<pageText, dvars, bvars, rvars, xvars>>

ScriptInit ==
    /\ impl \in {"server", "handler"}
    /\ Idle
    /\ Inert
    /\ pageText \in Texts
    /\ bootstrap = [t |-> "unset"]
    /\ adapter = "none"
    /\ transport = [delivered |-> 0, ended |-> FALSE, reads |-> 0]
    /\ accessors = <<>>
    /\ Apart

ScriptNext == \E emits \in BOOLEAN : GetApp(emits)

ScriptSpec == ScriptInit /\ [][ScriptNext]_vars

\* ================== adapters: the body accessors of a request =============

\* arrayBuffer(), form(), json(), text()
Accessors == {"arrayBuffer", "form", "json", "text"}

\* a call whose read is attached to the transport from chunk `from` on
Reading(accessor, from) ==
    [accessor |-> accessor, state |-> "pending", attached |-> TRUE,
     from |-> from]

\* NodeRequest: every accessor calls getRawBody(this.req). On a stream that
\* is still readable it listens from the chunks not yet delivered on; on a
\* stream that has ended raw-body rejects, or, in versions that do not test
\* stream.readable, waits for events that never come.
NodeAccessor(accessor) ==
    /\ adapter = "node"
    /\ Len(accessors) < MaxAccessorCalls
    /\ transport' = [transport EXCEPT !.reads = @ + 1]
    /\ IF transport.ended
       THEN \/ accessors' = Append(accessors,
                  [accessor |-> accessor, state |-> "rejected",
                   attached |-> FALSE, from |-> transport.delivered])
            \/ accessors' = Append(accessors,
                  [accessor |-> accessor, state |-> "pending",
                   attached |-> FALSE, from |-> transport.delivered])
       ELSE accessors' = Append(accessors, Reading(accessor, transport.delivered))
    /\ UNCHANGED <<adapter, dvars, bvars, svars, xvars>>

\* WorkerRequest: every accessor calls the accessor of the fetch Request,
\* which rejects with a TypeError once the body was used
WorkerAccessor(accessor) ==
    /\ adapter = "worker"
    /\ Len(accessors) < MaxAccessorCalls
    /\ IF transport.reads > 0
       THEN /\ accessors' = Append(accessors,
                  [accessor |-> accessor, state |-> "rejected",
                   attached |-> FALSE, from |-> transport.delivered])
            /\ UNCHANGED transport
       ELSE /\ accessors' = Append(accessors, Reading(accessor, 0))
            /\ transport' = [transport EXCEPT !.reads = @ + 1]
    /\ UNCHANGED <<adapter, dvars, bvars, svars, xvars>>

\* some read is attached to the transport stream
Flowing == \E i \in DOMAIN accessors : accessors[i].attached

\* the transport delivers a chunk of the body to the reads attached
Deliver ==
    /\ Flowing
    /\ ~transport.ended
    /\ transport.delivered < MaxBodyChunks
    /\ transport' = [transport EXCEPT !.delivered = @ + 1]
    /\ UNCHANGED <<adapter, accessors, dvars, bvars, svars, xvars>>

\* the body ends: every attached read resolves with the chunks it saw
End ==
    /\ Flowing
    /\ ~transport.ended
    /\ transport.delivered = MaxBodyChunks
    /\ transport' = [transport EXCEPT !.ended = TRUE]
    /\ accessors' =
          [i \in DOMAIN accessors |->
              IF accessors[i].attached
              THEN [accessors[i] EXCEPT !.state = "fulfilled", !.attached = FALSE]
              ELSE accessors[i]]
    /\ UNCHANGED <<adapter, dvars, bvars, svars, xvars>>

RequestInit ==
    /\ impl = "server"
    /\ Idle
    /\ Inert
    /\ pageText = <<>>
    /\ bootstrap = [t |-> "unset"]
    /\ adapter \in {"node", "worker"}
    /\ transport = [delivered |-> 0, ended |-> FALSE, reads |-> 0]
    /\ accessors = <<>>
    /\ Apart

RequestNext ==
    \/ \E accessor \in Accessors : NodeAccessor(accessor)
    \/ \E accessor \in Accessors : WorkerAccessor(accessor)
    \/ Deliver
    \/ End

RequestSpec == RequestInit /\ [][RequestNext]_vars

\* ================================ properties ==============================

Done == pc = "done"

\* the page, app and document modules loaded and have their exports
Intact == mods.page = "ok" /\ mods.app = "ok" /\ mods.document = "ok"

\* how many times `hook` of the module of route `of` was invoked
Invocations(hook, of) ==
    Cardinality({i \in DOMAIN calls : calls[i].hook = hook /\ calls[i].of = of})

\* a header of the response
HasHeader(response, name) == \E h \in response.headers : h[1] = name
Header(response, name) == (CHOOSE h \in response.headers : h[1] = name)[2]

\* a data-loading hook of the matched page threw, and the catch block took it
PageHookThrew ==
    /\ impl = "server"
    /\ route \in PageKeys
    /\ recoveries = 1
    /\ \E h \in {"getServerSideProps", "form"} :
        /\ oracle[h] = Throw(caught)
        /\ calls[Invocations("form", route) + Invocations("getServerSideProps", route)]
               = Call(h, route, Undef)

\* the error page's hook was handed the context with the thrown value
ErrorHookSawError ==
    /\ ctx.error = caught
    /\ calls[Len(calls)] = Call("getServerSideProps", ErrorKey, caught)

ErrorHookAnswer ==
    CASE errorMods.server = "builtin" ->
            [status |-> Num(IF caught = HttpError THEN 404 ELSE 500),
             redirect |-> Undef]
      [] errorMods.server = "hook" /\ oracle.errorProps.kind = "return"
            /\ oracle.errorProps.value.t = "object" ->
            [status |-> oracle.errorProps.value.status,
             redirect |-> oracle.errorProps.value.redirect]
      [] OTHER -> [status |-> Undef, redirect |-> Undef]

C2_LoadFailureRecovered ==
    ~(/\ impl = "server"
      /\ Done
      /\ outcome = "rejected"
      /\ reason \in {LoadError(w) : w \in {"page", "server", "app", "document"}})

\* C3: an exception raised inside ErrorRecovery (loading the error page's
\* modules, its missing export, its hook) rejects the dispatcher; a step
\* taken inside ErrorRecovery goes forward to the hook or settles, and the
\* catch block is entered once, never again.
C3_RecoveryIsFatalAndOnce ==
    [][/\ recoveries' <= 1
       /\ pc = "catch" =>
            /\ recoveries' = 1
            /\ \/ pc' = "errorProps" /\ outcome' = "pending"
               \/ /\ pc' = "done"
                  /\ outcome' = "rejected"
                  /\ reason' \in {LoadError("_error"), TypeError("page default")}
       /\ pc = "errorProps" =>
            /\ recoveries' = 1
            /\ pc' = "done"
            /\ oracle'.errorProps.kind = "throw" =>
                   outcome' = "rejected" /\ reason' = oracle'.errorProps.value
            /\ oracle'.errorProps.kind # "throw" => outcome' = "fulfilled"
      ]_vars

\* C3 witness: the error page's own hook threw and the dispatcher rejected
C3_Witness ==
    /\ Done
    /\ recoveries = 1
    /\ oracle.errorProps.kind = "throw"
    /\ outcome = "rejected"
    /\ reason = oracle.errorProps.value

\* the ServerSideProps given to render() on the path taken, when a hook
\* returned it
RenderedProps ==
    IF via = "error"
    THEN IF errorMods.server = "hook" /\ oracle.errorProps.kind = "return"
         THEN oracle.errorProps.value ELSE Undef
    ELSE IF via # "none" /\ mods.server.getServerSideProps
              /\ oracle.getServerSideProps.kind = "return"
         THEN oracle.getServerSideProps.value ELSE Undef

RedirectReturned ==
    /\ RenderedProps.t = "object"
    /\ RenderedProps.redirect.t # "undefined"

\* C4: when the resolved ServerSideProps carries a redirect, whichever path
\* reached render (GET, form POST, not-found, error recovery), the response
\* has the hook's status (302 when it gives none), a location header equal
\* to the redirect URL and no body; no response with a location header has a
\* body.
C4_RedirectHasNoBody ==
    (Done /\ outcome = "fulfilled") =>
        /\ RedirectReturned =>
              resp = Response(Coalesce(RenderedProps.status, Num(302)).v,
                              {<<"location", <<RenderedProps.redirect.url>>>>},
                              AbsentBody)
        /\ HasHeader(resp, "location") => resp.body.kind = "absent"

\* C4 witness: the error page's hook redirected, with a status of its own
C4_Witness ==
    /\ Done
    /\ outcome = "fulfilled"
    /\ via = "error"
    /\ RedirectReturned
    /\ resp.status = 301
    /\ Header(resp, "location") = <<"/x">>

\* the content-type values of the model that are form-encoded, and the rest
FormTypes == {<<FormLit>>, <<FormLit, ";">>}
OtherTypes == {<<>>, <<FormLit, "x">>}

\* a POST with form content-type to a matched, intact page with a form handler
FormPost ==
    /\ method = "POST"
    /\ req.contentType \in FormTypes
    /\ route \in PageKeys
    /\ Intact
    /\ mods.server.form

\* C5: on such a POST, once the default handling ran, the form handler was
\* invoked exactly once in the request, before getServerSideProps, and the
\* render received its result as formData: no sequence of steps of one
\* request, a custom handler delegating through next() included, submits
\* the form twice.
C5_FormSubmittedOnce ==
    (Done /\ FormPost /\ (impl = "server" \/ nextCalls >= 1)) =>
        /\ Invocations("form", route) = 1
        /\ \A i, j \in DOMAIN calls :
              (calls[i].hook = "form" /\ calls[j].hook = "getServerSideProps"
                   /\ calls[j].of = route) => i < j
        /\ (outcome = "fulfilled" /\ resp.body.kind = "react"
                /\ resp.body.element.component = route) =>
              resp.body.context.formData = oracle.form.value

Allowed(response) ==
    {Header(response, "allow")[i] : i \in DOMAIN Header(response, "allow")}

Registered == {reference.onRequest[i] : i \in DOMAIN reference.onRequest}

C7_CustomHandlerThrowRecovered ==
    (/\ impl = "handler"
     /\ Done
     /\ phase = "live"
     /\ Intact
     /\ \/ custom = "throw"
        \/ custom = "delegate" /\ \E h \in {"getServerSideProps", "form"} :
                                      oracle[h].kind = "throw")
    => outcome = "fulfilled"

\* the pathname matches no route key
Unmatched == Slice1(req.pathname) \notin PageKeys

\* the not-found page's hook result, when it ran and returned one
NotFoundProps ==
    IF via = "notFound" /\ mods.server.getServerSideProps
          /\ oracle.getServerSideProps.kind = "return"
    THEN Coalesce(oracle.getServerSideProps.value, SSP(EmptyProps, Undef, Undef))
    ELSE SSP(EmptyProps, Undef, Undef)

NoErrorNoCustomAnswer ==
    /\ outcome = "fulfilled"
    /\ recoveries = 0
    /\ custom # "respond"

C9_BrokenAppStillAnswers ==
    ~(/\ Done
      /\ route = NotFoundKey \/ recoveries >= 1
      /\ outcome = "rejected"
      /\ reason \in {LoadError("app"), TypeError("_app default")})

\* C10: a POST with a non-form content-type to a matched, intact page whose
\* server-logic module has a form handler and no custom handler yields 415
\* and no body.
C10_NonFormPostIs415 ==
    (/\ Done
     /\ phase = "live"
     /\ method = "POST"
     /\ req.contentType \in OtherTypes
     /\ route \in PageKeys
     /\ Intact
     /\ mods.server.form
     /\ mods.server.onRequest = <<>>)
    => /\ outcome = "fulfilled"
       /\ resp = Response(415, {}, AbsentBody)
       /\ calls = <<>>

\* C10 witness: a POST with content-type application/x-www-form-urlencodedx
\* got 415
C10_Witness ==
    /\ Done
    /\ method = "POST"
    /\ req.contentType = <<FormLit, "x">>
    /\ route \in PageKeys
    /\ mods.server.form
    /\ resp.status = 415
    /\ resp.body.kind = "absent"

\* a request whose method the default handling does not serve, to a matched,
\* intact page whose server-logic module has neither a form handler nor a
\* custom handler
UnsupportedMethod ==
    /\ phase = "live"
    /\ method \notin {"GET", "POST"}
    /\ route \in PageKeys
    /\ Intact
    /\ ~mods.server.form
    /\ mods.server.onRequest = <<>>

\* C11: a method that is neither GET nor POST, on a matched page with no
\* custom handler and no form handler, is answered 405 with the Allow header
\* "GET" as its only header and no body; no hook is invoked.
C11_UnsupportedMethodIs405 ==
    (Done /\ UnsupportedMethod) =>
        /\ outcome = "fulfilled"
        /\ resp = Response(405, {<<"allow", <<"GET">>>>}, AbsentBody)
        /\ calls = <<>>

\* C11 witness: PUT on page a, in the build with the catch block
C11_Witness ==
    /\ Done
    /\ UnsupportedMethod
    /\ impl = "server"
    /\ req.method = "PUT"
    /\ route = <<"a">>
    /\ resp.status = 405
    /\ Header(resp, "allow") = <<"GET">>

\* the methods the server-logic module of the matched route answers for
ModuleMethods ==
    {"GET"} \cup {m \in {"POST"} : mods.server.form}
            \cup {mods.server.onRequest[i] : i \in DOMAIN mods.server.onRequest}

\* C12: the Allow header of a 405 lists, each once, GET, POST when the
\* server-logic module loaded for the matched route has a form handler, the
\* methods for which that module registers a custom handler, and nothing
\* else; it is the only header, and the body is absent.
C12_AllowFromMatchedModule ==
    (Done /\ outcome = "fulfilled" /\ resp.status = 405) =>
        /\ mods.page # "none"
        /\ {h[1] : h \in resp.headers} = {"allow"}
        /\ Allowed(resp) = ModuleMethods
        /\ Len(Header(resp, "allow")) = Cardinality(ModuleMethods)
        /\ Header(resp, "allow")[1] = "GET"
        /\ resp.body = AbsentBody

\* C12 witness: a custom PUT handler delegated on a module that also has a
\* GET handler and a form handler: Allow is GET,POST,PUT
C12_Witness ==
    /\ Done
    /\ phase = "live"
    /\ outcome = "fulfilled"
    /\ resp.status = 405
    /\ mods.server.onRequest = <<"PUT", "GET">>
    /\ mods.server.form
    /\ Header(resp, "allow") = <<"GET", "POST", "PUT">>

\* what the matched page's getServerSideProps returned, when it has one
PageHookResult ==
    IF mods.server.getServerSideProps /\ oracle.getServerSideProps.kind = "return"
    THEN oracle.getServerSideProps.value ELSE Undef

\* the props the page's hook resolved to: {} when it is absent or returned
\* nothing
ResolvedProps ==
    IF PageHookResult.t = "undefined" THEN EmptyProps ELSE PageHookResult.props

\* a GET of a registered route key whose modules are intact
PageGet ==
    /\ method = "GET"
    /\ route \in PageKeys
    /\ Intact

Written(chunk) == Cardinality({i \in DOMAIN output : output[i] = chunk})

\* C14: in every composed stream (readableStream, nodeStream, the worker
\* adapter's) the output is the prefix, then the content, then the suffix:
\* content is piped only once the prefix is in the output, the suffix is
\* written only once the render's stream has ended and all of it was piped,
\* and it is written once, last, before the output is closed.
C14_PrefixContentSuffix ==
    /\ \A i \in DOMAIN output : output[i] = "prefix" <=> i = 1
    /\ pipe \in {"piping", "suffix", "done"} => Written("prefix") = 1
    /\ Written("content") = react.sent
    /\ \A i \in DOMAIN output : output[i] = "suffix" => i = Len(output)
    /\ Written("suffix") = 1 =>
          /\ react.allReady
          /\ Written("content") = react.ready
    /\ outputEnd = "closed" <=> Written("suffix") = 1
    /\ outputEnd = "closed" => pipe = "done"

\* C14 witness: the worker adapter wrote prefix, shell, subtree and suffix
C14_Witness ==
    /\ consumer = "worker"
    /\ outputEnd = "closed"
    /\ output = <<"prefix", "content", "content", "suffix">>

\* C15: once the signal is triggered on a render whose composed stream was
\* handed out, the output ends, and no ended output is a truncated document:
\* it was closed after the suffix, or aborted, and no writer holds its lock.
C15_CancelEndsDocument ==
    /\ [](outputEnd # "open" =>
            /\ ~lock
            /\ \/ outputEnd = "closed" /\ output[Len(output)] = "suffix"
               \/ outputEnd = "aborted")
    /\ (signalled /\ handedOut) ~> (outputEnd # "open" /\ ~lock)

\* C15 witness: the signal gave up the suspended subtree of a render whose
\* stream readableStream had handed out, and the document was closed
C15_Witness ==
    /\ consumer = "readableStream"
    /\ signalled
    /\ react.aborted
    /\ react.shell = "ready"
    /\ ~options.waitForAllReady
    /\ outputEnd = "closed"
    /\ output[Len(output)] = "suffix"

\* C16: with waitForAllReady the promise of the raw form is resolved only
\* once the render is all ready; without it the promise is resolved as soon
\* as the shell is ready, all ready or not.
C16_WaitForAllReady ==
    /\ acquired.state = "resolved" => react.shell = "ready"
    /\ (options.waitForAllReady /\ acquired.state = "resolved") => react.allReady
    /\ (options.waitForAllReady /\ react.allReady) => acquired.state = "resolved"
    /\ (~options.waitForAllReady /\ react.shell = "ready") =>
          acquired.state = "resolved"

\* C16 witness: rawNodeStream with waitForAllReady resolved after a
\* suspended subtree completed
C16_Witness ==
    /\ impl = "handler"
    /\ consumer = "rawNodeStream"
    /\ options.waitForAllReady
    /\ acquired.state = "resolved"
    /\ react.ready = 2
    /\ ~react.aborted

\* C17: a failure of the shell rejects the promise of the raw form (and so
\* nodeStream); from the shell being ready on, an error calls onError and
\* reject() is never called; a resolved promise is not settled again.
C17_ShellErrorRejects ==
    [][/\ (react.shell = "pending" /\ react'.shell = "error") =>
              /\ acquired'.state = "rejected"
              /\ onErrors' = onErrors + 1
       /\ react.shell = "ready" =>
              /\ acquired'.rejects = acquired.rejects
              /\ acquired'.state \in {acquired.state, "resolved"}
       /\ acquired.state \in {"resolved", "rejected"} => acquired' = acquired
       /\ acquired'.resolves + acquired'.rejects <= 1
      ]_vars

\* C17 witness: an error in the suspended subtree after nodeStream handed
\* out its stream: onError was called, the promise stayed resolved
C17_Witness ==
    /\ consumer = "nodeStream"
    /\ handedOut
    /\ ~signalled
    /\ onErrors = 1
    /\ react.shell = "ready"
    /\ acquired = [state |-> "resolved", resolves |-> 1, rejects |-> 0]

C19_ScriptDataEscaped ==
    bootstrap.t = "string" =>
        \A i \in DOMAIN bootstrap.v : ~Matches(bootstrap.v, i)

\* C20: the body accessors of a request object read the transport at most
\* once, and the calls of one accessor all yield the same value: none is
\* rejected, and no two that settled differ.
C20_AccessorsMemoized ==
    /\ transport.reads <= 1
    /\ \A i \in DOMAIN accessors : accessors[i].state # "rejected"
    /\ \A i, j \in DOMAIN accessors :
          (/\ accessors[i].accessor = accessors[j].accessor
           /\ accessors[i].state = "fulfilled"
           /\ accessors[j].state = "fulfilled")
          => accessors[i].from = accessors[j].from

\* the node handler was called with a streaming Response and took its body
Exchanging == exchange.stage \in {"body", "piped", "failed"}

\* the whole composed body, prefix, content and suffix, reached res
BodyInHost ==
    /\ outputEnd = "closed"
    /\ exchange.written = Len(output)
    /\ exchange.piped

\* C21: for a Response with a streaming body the node adapter sets the host
\* status code to the Response status, passes a failure to next at most once,
\* and once the whole body (prefix, content, suffix) has been drained into
\* the host response that response is ended: the exchange is not left open.
C21_ExchangeCompleted ==
    Exchanging =>
        /\ exchange.statusCode = Num(resp.status)
        /\ exchange.nexts <= 1
        /\ (exchange.nexts = 1) = (exchange.stage = "failed")
        /\ BodyInHost => exchange.ended

\* the handler of part_009 completes the exchange it drained
C21_Witness ==
    /\ exchange.adapter = "part_009"
    /\ BodyInHost
    /\ exchange.ended

\* C22: a render error raised before the shell is ready is routed to
\* ErrorRecovery: the dispatcher's catch block ran and the Response is the
\* error page, and no rejected body-acquisition call surfaces in the adapter
\* (nothing is passed to next).
C22_ShellErrorRecovered ==
    /\ react.shell = "error" => (recoveries >= 1 /\ via = "error")
    /\ exchange.nexts = 0

\* the dispatcher answered from its catch block with a rendered body
ErrorPageAnswer ==
    /\ impl = "server"
    /\ Done
    /\ recoveries = 1
    /\ outcome = "fulfilled"
    /\ resp.body.kind = "react"

\* C23: the response of ErrorRecovery is built from the error Route: the
\* component rendered is the error page's, the hook called is the error
\* page's, and the Route in the context handed to the body (whose scriptUrl
\* and cssUrls getApp and renderPrefix read) is the error Route, not the
\* Route whose handling failed.
C23_ErrorRouteContext ==
    ErrorPageAnswer =>
        /\ resp.body.element.component = ErrorKey
        /\ errorMods.server # "noHook" =>
              calls[Len(calls)].hook = "getServerSideProps"
                  /\ calls[Len(calls)].of = ErrorKey
        /\ resp.body.context.route = ErrorKey

\* ErrorRecovery answered
Recovered ==
    /\ impl = "server"
    /\ Done
    /\ recoveries = 1
    /\ outcome = "fulfilled"

\* what the hook of a custom error page returned
ErrorHookReturn ==
    IF oracle.errorProps.kind = "return"
    THEN Coalesce(oracle.errorProps.value, SSP(EmptyProps, Undef, Undef))
    ELSE SSP(EmptyProps, Undef, Undef)

\* the status the claim gives the built-in error page: the thrown value's
\* numeric status, else its numeric statusCode, else 500
NumericStatusOf(error) ==
    IF error.t # "object" THEN 500
    ELSE IF error.status.t = "number" THEN error.status.v
    ELSE IF error.statusCode.t = "number" THEN error.statusCode.v
    ELSE 500

\* C24 as stated: in ErrorRecovery the status is 500 unless the error page's
\* own hook overrides it (with a status, or with a redirect); with the
\* built-in error page it is the thrown value's numeric status, else its
\* numeric statusCode, and 500 for every other thrown value.
C24_RecoveryStatus ==
    Recovered =>
        CASE errorMods.server = "noHook" -> resp.status = 500
          [] errorMods.server = "hook" ->
                \/ resp.status = Coalesce(ErrorHookReturn.status, Num(500)).v
                \/ ErrorHookReturn.redirect.t # "undefined"
          [] errorMods.server = "builtin" ->
                resp.status = NumericStatusOf(caught)

\* C24 (amended): in ErrorRecovery the status is the one the error page's
\* hook returns; when it returns none the status is 302 if it returns a
\* redirect and 500 otherwise. The built-in error page returns the thrown
\* object's status when that is a number other than 0, its statusCode when
\* status is falsy (absent, 0, "") and statusCode is a number, and 500 for
\* every other thrown value (a status that is a non-empty string hides a
\* numeric statusCode).
C24_RecoveryStatusAsComputed ==
    Recovered =>
        CASE errorMods.server = "noHook" -> resp.status = 500
          [] errorMods.server = "hook" ->
                resp.status =
                    Coalesce(ErrorHookReturn.status,
                             IF ErrorHookReturn.redirect.t # "undefined"
                             THEN Num(302) ELSE Num(500)).v
          [] errorMods.server = "builtin" ->
                resp.status =
                    IF caught.t # "object" THEN 500
                    ELSE IF caught.status.t = "number" /\ caught.status.v # 0
                    THEN caught.status.v
                    ELSE IF Falsy(caught.status) /\ caught.statusCode.t = "number"
                    THEN caught.statusCode.v
                    ELSE 500

\* C24 witness: the built-in error page answered a thrown object whose
\* status is 0 with the object's statusCode
C24_Witness ==
    /\ Recovered
    /\ errorMods.server = "builtin"
    /\ caught.t = "object"
    /\ caught.status = Num(0)
    /\ caught.statusCode = Num(404)
    /\ resp.status = 404

\* the handler build is past its onRequest test, on a request for whose
\* upper-cased method the matched route's server module registers a handler
CustomHandled ==
    /\ impl = "handler"
    /\ phase = "live"
    /\ pc \notin {"idle", "load", "onRequest"}
    /\ HasHandler(mods.server, method)

\* C25: when the server module of the matched route registers a custom
\* handler for the request's upper-cased method, that handler is invoked
\* first; the hooks of the default handling are invoked only after it called
\* next(), and then they are; a handler that returns (or throws) without
\* calling next() settles the dispatcher with none of those hooks invoked.
C25_CustomHandlerFirst ==
    CustomHandled =>
        /\ Len(calls) >= 1
        /\ calls[1] = Call("onRequest", route, Undef)
        /\ Len(calls) > 1 => nextCalls >= 1
        /\ custom \in {"respond", "throw"} =>
              /\ Done
              /\ Len(calls) = 1
              /\ nextCalls = 0
              /\ outcome = "fulfilled" => resp = json(LoaderData, 200)
        /\ (/\ custom = "delegate"
            /\ Done
            /\ Intact
            /\ route \in PageKeys
            /\ method = "POST"
            /\ mods.server.form
            /\ FORM_CONTENT_TYPE_RE(req.contentType)) =>
              Invocations("form", route) >= 1

\* C25 witness: a request sent with method "post" was answered by the custom
\* POST handler alone, the module's form handler never invoked
C25_Witness ==
    /\ CustomHandled
    /\ req.method = "post"
    /\ mods.server.form
    /\ custom = "respond"
    /\ Done
    /\ calls = <<Call("onRequest", route, Undef)>>

\* the render is over: its shell failed, it was closed, or it is all ready
Settled ==
    \/ react.shell \in {"error", "closed"}
    \/ react.allReady

\* C26: the abort listener a body-acquisition call registered on the caller's
\* signal is detached once the render has settled, on every settling path
\* (shell error, all ready, abort, error after the shell): no listener of a
\* render that is over remains on the signal.
C26_ListenerDetached ==
    Settled => ~listener

\* a node form registered its listener and the render then completed
C26_Detached ==
    /\ consumer \in NodeForms
    /\ options.signal
    /\ react.allReady
    /\ ~listener

\* C27: under hot reload the page table is replaced wholesale and never
\* mutated in place: the route set of the site a request obtained stays the
\* one it was created with while file add/unlink events interleave, and all
\* the request sees of it (the route its router matched, the error page of
\* its catch block) is that one route set's.
C27_RouteSetPerInstance ==
    \A i \in DevRequests :
        inflight[i].stage \in {"handling", "recovered"} =>
            /\ sites[inflight[i].site] = inflight[i].table
            /\ inflight[i].matched = (<<"a">> \in inflight[i].table.pages)
            /\ inflight[i].stage = "recovered" =>
                  inflight[i].sawError = inflight[i].table.error

\* C27 witness: a request recovered against the site it obtained, with no
\* page and no error page, after both files were added and a second request
\* obtained a new site that has them
C27_Witness ==
    /\ inflight[1].stage = "recovered"
    /\ inflight[1].table = filesToList(impl, {})
    /\ ~inflight[1].sawError
    /\ inflight[2].stage = "handling"
    /\ inflight[2].site # inflight[1].site
    /\ inflight[2].table = filesToList(impl, WatchedFiles)
    /\ inflight[2].matched

C29_NothingRetried ==
    (impl = "server" /\ phase = "live") =>
        /\ \A which \in DOMAIN loads : loads[which] <= 1
        /\ pc \notin {"idle", "load"} =>
              /\ loads.page = 1
              /\ loads.server = 1
              /\ loads.app = 1
              /\ loads.document = 1
        /\ recoveries <= 1
        /\ loads.errorPage = (IF pc = "catch" THEN 0 ELSE recoveries)
        /\ loads.errorServer = loads.errorPage
        /\ \A i \in DOMAIN calls : Invocations(calls[i].hook, calls[i].of) = 1

\* C29 witness: the hook of page a threw, the error page was loaded and its
\* own hook threw; the dispatcher rejected with every loader invoked once
C29_Witness ==
    /\ impl = "server"
    /\ Done
    /\ outcome = "rejected"
    /\ recoveries = 1
    /\ oracle.errorProps = Throw(reason)
    /\ loads = ErrorRouteLoaded(RouteLoaded(NoLoads))
    /\ Len(calls) = 2

\* C30: the loader fn() makes of a callable value calls that value on every
\* invocation (N invocations are N calls of the factory, each returning what
\* that call produced, nothing cached); the loader it makes of a non-callable
\* value returns that same value on every invocation.
C30_LoaderReinvokes ==
    \A slot \in ModuleSlots :
        LET given == invoked[slot].given
            results == invoked[slot].results
        IN loaders[slot].calls # "none" =>
              IF given.t = "function"
              THEN /\ invoked[slot].factoryCalls = Len(results)
                   /\ \A n \in DOMAIN results : results[n] = Product(given, n)
              ELSE /\ invoked[slot].factoryCalls = 0
                   /\ \A n \in DOMAIN results : results[n] = given

\* C30 witness: the loader of a factory was invoked three times and called it
\* three times, the loader of a module object returned it three times
C30_Witness ==
    /\ invoked["module"].given.t = "function"
    /\ invoked["module"].factoryCalls = MaxInvocations
    /\ Len(invoked["module"].results) = MaxInvocations
    /\ invoked["serverModule"].given.t = "object"
    /\ Len(invoked["serverModule"].results) = MaxInvocations

\* the Response of the dispatcher's own handling, not one a custom handler
\* of the page made itself
OwnResponse ==
    /\ Done
    /\ outcome = "fulfilled"
    /\ custom # "respond"

ContentType(response) ==
    IF HasHeader(response, "content-type")
    THEN Header(response, "content-type") ELSE <<>>

\* C31: in every Response the content-type header is text/html exactly when
\* the body is a ReactBody, application/json exactly when the body is a JSON
\* string, and there is no content-type header when the body is absent.
C31_ContentTypeOfBody ==
    OwnResponse =>
        /\ ContentType(resp) = <<"text/html">> <=> resp.body.kind = "react"
        /\ ContentType(resp) = <<"application/json">> <=> resp.body.kind = "json"
        /\ resp.body.kind = "absent" => ~HasHeader(resp, "content-type")

\* the part of C31 the loader branch does not touch: rendered pages, redirects
\* and the empty 404, 405 and 415 responses
C31_ContentTypeButLoader ==
    (OwnResponse /\ Invocations("loader", route) = 0) =>
        /\ ContentType(resp) = <<"text/html">> <=> resp.body.kind = "react"
        /\ resp.body.kind = "absent" => ~HasHeader(resp, "content-type")
        /\ resp.body.kind # "json"

\* the formData of the RenderContext a Response's body was made with
RenderedFormData(response) ==
    IF response.body.kind = "react"
    THEN response.body.context.formData ELSE Undef

\* formData is there only on a POST of a matched page whose form handler was
\* invoked and returned it, and not on the paths that run no form handler
FormDataFromForm(response) ==
    /\ RenderedFormData(response) # Undef =>
          /\ method = "POST"
          /\ Invocations("form", route) >= 1
          /\ oracle.form = Returns(RenderedFormData(response))
    /\ (method # "POST" \/ route = NotFoundKey \/ recoveries > 0
          \/ response.status \in {405, 415}) =>
          RenderedFormData(response) = Undef

\* C32: formData is present in a render only after a form-submission handler
\* has run in that same request; on GET, not-found, 405/415 and
\* error-recovery paths the render's formData is undefined.
C32_FormDataOnlyAfterForm ==
    /\ OwnResponse => FormDataFromForm(resp)
    /\ \A i \in DOMAIN nextLog :
          nextLog[i].outcome = "fulfilled" => FormDataFromForm(nextLog[i].resp)

C32_Witness ==
    /\ OwnResponse
    /\ RenderedFormData(resp) = FormResult
    /\ Invocations("form", route) = 1

\* C33: no hook, form handler or data loader of the originally matched page
\* is ever handed a ServerSideContext that carries an error field, at any
\* point of the request; only the error page's hook is.
C33_NoErrorForPageHooks ==
    \A i \in DOMAIN calls :
        calls[i].of # ErrorKey => calls[i].error = Undef

\* until the dispatcher has settled, every hook of the matched page was handed
\* a context without an error field
C33_NoErrorWhileDispatching ==
    \A i \in DOMAIN calls :
        (calls[i].of # ErrorKey /\ calls[i].error # Undef) =>
            /\ Done
            /\ recoveries = 1
            /\ i = Len(calls)
            /\ calls[i] = Call("loader", route, caught)

\* a captured value that has an escape decodeURIComponent rejects
Malformed(value) == \E i \in DOMAIN value : value[i] \in {"%zz", "%FF"}

\* the value of a key in the params of the Route
Param(i) == routing.params[i][2]

\* C34: routing never fails on a bad parameter: a captured value with a
\* malformed percent-escape is passed through as the raw captured text, the
\* other captured values are still decoded (no escape is left in them), and
\* the request goes to the matched route.
C34_BadParamPassedRaw ==
    routing.stage = "done" =>
        /\ ~routing.threw
        /\ routing.key = <<"a">>
        /\ \A i \in DOMAIN RouteKeys :
              /\ routing.params[i][1] = RouteKeys[i]
              /\ Malformed(routing.values[i]) => Param(i) = routing.values[i]
              /\ ~Malformed(routing.values[i]) =>
                    /\ Len(Param(i)) = Len(routing.values[i])
                    /\ \A j \in DOMAIN Param(i) :
                          /\ Param(i)[j] # "%41"
                          /\ routing.values[i][j] = "%41" => Param(i)[j] = "A"
                          /\ routing.values[i][j] = "a" => Param(i)[j] = "a"

\* one value is malformed and kept raw, the other had an escape and lost it
C34_Witness ==
    /\ routing.stage = "done"
    /\ routing.values = <<<<"%41", "%zz">>, <<"%41", "a">>>>
    /\ routing.params = <<<<"x", <<"%41", "%zz">>>>, <<"y", <<"A", "a">>>>>>

\* C35: every file the watcher reports (any file matching its patterns: the
\* _error, _404, _app, _document and pages/**/index files and their .server
\* variants) is classified by filesToList without throwing: list() never
\* fails with `Unhandled file`.
C35_WatchedFilesClassified ==
    sites # <<>> => ~Throws(sites[1])

\* the same of the dev.ts that creates the server build, whose filesToList
\* has a branch for each of its watch patterns
C35_ClassifiedBySrcDev ==
    (impl = "server" /\ sites # <<>>) =>
        /\ ~Throws(sites[1])
        /\ sites[1].error = (ErrorFile \in files)

\* no dev request is left without a site
C35_DevRequestsServed ==
    \A i \in DevRequests : inflight[i].stage # "failed"

\* C36: a 405 response never lists the request's own method in its Allow
\* header, whatever the custom handlers do (calling next() included): when
\* the status is 405, the upper-cased request method is not in Allow.
C36_AllowOmitsOwnMethod ==
    (Done /\ impl = "handler" /\ outcome = "fulfilled" /\ resp.status = 405) =>
        toUpperCase(req.method) \notin Allowed(resp)

\* the same where no custom handler is registered for the request's method
C36_AllowOmitsUnhandledMethod ==
    (Done /\ impl = "handler" /\ outcome = "fulfilled" /\ resp.status = 405
          /\ ~HasHandler(mods.server, toUpperCase(req.method))) =>
        toUpperCase(req.method) \notin Allowed(resp)

\* the cached site, when there is one, was built from the files as they are
CacheCurrent == cache # 0 => sites[cache] = filesToList(impl, files)

\* C37: in the dev server, after any sequence of add/unlink events and
\* requests, a cached handler that is not null was built from exactly the
\* current watched file set; so every request that obtains a handler gets one
\* whose page list reflects all the events before that moment.
C37_CachedHandlerCurrent ==
    [][/\ CacheCurrent
       /\ CacheCurrent'
       /\ \A i \in DevRequests :
             (inflight[i].stage = "idle" /\ inflight'[i].stage = "handling") =>
                 /\ inflight'[i].table = filesToList(impl, files)
                 /\ inflight'[i].table = sites'[inflight'[i].site]]_vars

\* C37 witness: both files were added one after the other, and a request
\* obtained a handler made after the second event, the third of the session
C37_Witness ==
    /\ files = WatchedFiles
    /\ cache = 3
    /\ sites[2] # sites[3]
    /\ sites[3] = filesToList(impl, WatchedFiles)
    /\ inflight[1].stage = "handling"
    /\ inflight[1].site = 3
    /\ inflight[1].matched

\* the caller gave rawNodeStream a signal, and that signal is aborted
SignalAborted ==
    /\ consumer \in NodeForms
    /\ options.signal
    /\ signalled

\* C38: the render is aborted whenever the caller's signal is or becomes
\* aborted while the render has not settled, the signal that is already
\* aborted when rawNodeStream is called included: with an aborted signal no
\* render is left running.
C38_AbortedSignalAbortsRender ==
    SignalAborted => Settled

\* a signal that becomes aborted after the call aborts the render there and
\* then
C38_AbortReachesRender ==
    [][(consumer \in NodeForms /\ options.signal /\ ~signalled /\ signalled')
          => Settled']_vars

\* a POST for whose method the matched route's module registers
\* onFormSubmit(process), past the handler's test of the content type
SubmittedPost ==
    /\ impl = "part_013"
    /\ route \in PageKeys
    /\ toUpperCase(req.method) = "POST"
    /\ pc \notin {"idle", "load", "onRequest"}
    /\ HasHandler(mods.server, "POST")

\* where in `calls` the hook was invoked
CallsOf(hook) == {i \in DOMAIN calls : calls[i].hook = hook}

\* C39: with onFormSubmit(process) as a page's POST handler, a POST with a
\* form content-type invokes process exactly once, stores its result in
\* ctx.formData before getServerSideProps runs, and the page data rendered
\* carries that formData; a POST with any other content-type does not invoke
\* process and is answered 415 with an absent body.
C39_OnFormSubmit ==
    SubmittedPost =>
        IF req.contentType \in FormTypes
        THEN /\ Cardinality(CallsOf("process")) = IF pc = "form" THEN 0 ELSE 1
             /\ \A i \in CallsOf("getServerSideProps") :
                   /\ \A j \in CallsOf("process") : j < i
                   /\ oracle.form.kind = "return"
                   /\ calls[i].formData = oracle.form.value
             /\ (Done /\ outcome = "fulfilled" /\ resp.body.kind = "react") =>
                   /\ oracle.form.kind = "return"
                   /\ resp.body.context.pageData.formData = oracle.form.value
                   /\ resp.body.context.pageData.formData # Undef
             /\ (Done /\ Intact /\ oracle.form.kind = "return"
                      /\ ~mods.server.getServerSideProps) =>
                   /\ outcome = "fulfilled"
                   /\ resp.status = 200
                   /\ resp.body.kind = "react"
        ELSE /\ CallsOf("process") = {}
             /\ CallsOf("getServerSideProps") = {}
             /\ Done
             /\ outcome = "fulfilled"
             /\ resp = Empty(415)

\* C39 witness: a form POST was processed, getServerSideProps ran after it
\* with the result in ctx.formData, and the page was rendered with it
C39_Witness ==
    /\ SubmittedPost
    /\ Done
    /\ req.contentType = <<FormLit, ";">>
    /\ Len(calls) = 3
    /\ calls[2].hook = "process"
    /\ calls[3] = [hook |-> "getServerSideProps", of |-> <<"a">>,
                   formData |-> FormResult]
    /\ resp.status = 200
    /\ resp.body.context.pageData = [props |-> PageProps, formData |-> FormResult]

\* the other half of C39: a POST with another content-type got the 415
C39_Unsupported ==
    /\ SubmittedPost
    /\ Done
    /\ req.contentType = <<FormLit, "x">>
    /\ resp = Empty(415)
    /\ Len(calls) = 1

====
